---- MODULE Spec2Model ----
(***************************************************************************)
(* State-machine model of the AI image analysis MCP server:                *)
(*   - the rate limiter and the audit log of modules/security.ts,          *)
(*   - the local stdio dispatcher (tools/call handler) with the analysis   *)
(*     and upload modules it delegates to,                                 *)
(*   - the analyze_image source selection of the four transport bindings.  *)
(***************************************************************************)
EXTENDS Integers, Sequences, FiniteSets, TLC

\* ------------------------------------------------------------------------
\* Program constants
\* ------------------------------------------------------------------------
RATE_LIMIT_WINDOW == 60000

MAX_REQUESTS_PER_WINDOW == 30

AUDIT_LOG_CAPACITY == 1000

MS_PER_SECOND == 1000

\* ------------------------------------------------------------------------
\* Bounds of the model
\* ------------------------------------------------------------------------
\* The clock takes the values k * RATE_LIMIT_WINDOW + d, k <= MaxEpochs, d <= MaxJitter.
MaxEpochs == 1

MaxJitter == 1

\* A window is called at most MaxDenied times after it has filled up.
MaxDenied == 2

\* A caller other than 'global' makes at most MaxClientCalls calls in one window.
MaxClientCalls == 1

Instants == {k * RATE_LIMIT_WINDOW + d : k \in 0..MaxEpochs, d \in 0..MaxJitter}

\* Client identifiers of the rate limiter ('global' is the one the local dispatcher uses).
Identifiers == {"global", "client"}

NoWindow == [count |-> 0, resetTime |-> -1]

NoRetry == -1

VARIABLES
  now,            \* the value Date.now() returns
  rateLimitStore, \* Map<string, RateLimitWindow>, NoWindow for an absent key
  rlStats,        \* history: calls admitted / denied against each identifier's current window
  rlLast,         \* history: the last checkRateLimit call and what it returned
  auditLog,       \* AuditEntry[]
  audited,        \* history: every entry ever passed to auditRequest, in order
  statusTotal,    \* audit_log.total_entries of the last security status report, -1 before
  apiKeySet,      \* process.env.GEMINI_API_KEY is set
  req,            \* the tools/call request under observation: its arguments, position and reply
  fnCall          \* history: the last call of a pure function, its input and its result

vars ==
  <<now, rateLimitStore, rlStats, rlLast, auditLog, audited, statusTotal, apiKeySet, req,
    fnCall>>

\* No pure function has been called.
NoFnCall == [fn |-> "none"]

\* ------------------------------------------------------------------------
\* A tools/call request
\* ------------------------------------------------------------------------
\* Argument values are classes of JSON values: "absent" (undefined), "nonstring" (a
\* truthy value that is no string), and classes of strings.
NoArgs ==
  [defined |-> FALSE, image_path |-> "absent", image_url |-> "absent",
   image_data |-> "absent", analysis_type |-> "absent", bucket |-> "absent",
   path |-> "absent",
   supabase_url |-> "absent", supabase_key |-> "absent"]

EmptyArgs == [NoArgs EXCEPT !.defined = TRUE]

NoResponse == [kind |-> "none", isError |-> FALSE, fields |-> {},
               error |-> [stage |-> "none", cause |-> "none", retryAfter |-> NoRetry]]

NoRequest ==
  [pc |-> "new", binding |-> "none", name |-> "none", args |-> NoArgs,
   forwarded |-> NoArgs, source |-> "none", analysisType |-> "none",
   response |-> NoResponse, audits |-> <<>>, stages |-> <<>>,
   aiCalls |-> 0, storageCalls |-> 0, fileOps |-> 0, urlFetches |-> 0, dbRows |-> 0]

\* ------------------------------------------------------------------------
\* Rate limiter (modules/security.ts checkRateLimit)
\* ------------------------------------------------------------------------
\* Math.ceil(a / b) for a >= 0, b > 0
CeilDiv(a, b) == (a + b - 1) \div b

\* !window || now > window.resetTime
WindowExpired(window, t) == window = NoWindow \/ t > window.resetTime

\* Mutant: the limit test written with > instead of >=.
WindowFull_OffByOne(window) == window.count > MAX_REQUESTS_PER_WINDOW

\* window.count >= MAX_REQUESTS_PER_WINDOW
WindowFull(window) == window.count >= MAX_REQUESTS_PER_WINDOW

\* Mutant: Math.floor in place of Math.ceil.
RetryAfter_Floor(window, t) == (window.resetTime - t) \div MS_PER_SECOND

\* Math.ceil((window.resetTime - now) / 1000)
RetryAfter(window, t) == CeilDiv(window.resetTime - t, MS_PER_SECOND)

\* Mutant: an expired window is incremented instead of being replaced.
NextWindow_IncrementsExpired(window, t) ==
  IF window = NoWindow
    THEN [count |-> 1, resetTime |-> t + RATE_LIMIT_WINDOW]
    ELSE IF WindowFull(window) /\ ~WindowExpired(window, t)
      THEN window
      ELSE [window EXCEPT !.count = @ + 1]

\* Mutant: the increment of a live window is lost.
NextWindow_LostUpdate(window, t) ==
  IF WindowExpired(window, t)
    THEN [count |-> 1, resetTime |-> t + RATE_LIMIT_WINDOW]
    ELSE window

\* The window stored for the identifier after a call at time t.
NextWindow(window, t) ==
  IF WindowExpired(window, t)
    THEN [count |-> 1, resetTime |-> t + RATE_LIMIT_WINDOW]
    ELSE IF WindowFull(window)
      THEN window
      ELSE [window EXCEPT !.count = @ + 1]

\* Mutant: a denied call pushes the reset time of the window forward.
checkRateLimit_DeniedExtendsWindow(store, identifier, t) ==
  LET window == store[identifier] IN
  IF WindowExpired(window, t) \/ ~WindowFull(window)
    THEN [allowed |-> TRUE, retryAfter |-> NoRetry,
          store |-> [store EXCEPT ![identifier] = NextWindow(window, t)]]
    ELSE [allowed |-> FALSE, retryAfter |-> RetryAfter(window, t),
          store |-> [store EXCEPT ![identifier].resetTime = t + RATE_LIMIT_WINDOW]]

\* checkRateLimit(identifier) at time t: the result and the store it leaves.
checkRateLimit(store, identifier, t) ==
  LET window == store[identifier] IN
  IF WindowExpired(window, t)
    THEN [allowed |-> TRUE, retryAfter |-> NoRetry,
          store |-> [store EXCEPT ![identifier] = NextWindow(window, t)]]
    ELSE IF WindowFull(window)
      THEN [allowed |-> FALSE, retryAfter |-> RetryAfter(window, t), store |-> store]
      ELSE [allowed |-> TRUE, retryAfter |-> NoRetry,
            store |-> [store EXCEPT ![identifier] = NextWindow(window, t)]]

\* History kept beside a call: what the call saw and what it answered.
RateLimitRecord(stats, store, identifier, t) ==
  LET r == checkRateLimit(store, identifier, t) IN
  [op |-> "call", id |-> identifier, at |-> t, allowed |-> r.allowed,
   retryAfter |-> r.retryAfter, before |-> store[identifier],
   deniedBefore |-> stats[identifier].denied]

RateLimitStats(stats, store, identifier, t) ==
  LET r == checkRateLimit(store, identifier, t) IN
  IF WindowExpired(store[identifier], t)
    THEN [stats EXCEPT ![identifier] = [admitted |-> 1, denied |-> 0]]
    ELSE IF r.allowed
      THEN [stats EXCEPT ![identifier].admitted = @ + 1]
      ELSE [stats EXCEPT ![identifier].denied = @ + 1]

\* One call of checkRateLimit by some caller.
CallCheckRateLimit(identifier) ==
  /\ \/ WindowExpired(rateLimitStore[identifier], now)
     \/ /\ rlStats[identifier].denied < MaxDenied
        /\ identifier = "global" \/ rlStats[identifier].admitted < MaxClientCalls
  /\ rateLimitStore' = checkRateLimit(rateLimitStore, identifier, now).store
  /\ rlLast' = RateLimitRecord(rlStats, rateLimitStore, identifier, now)
  /\ rlStats' = RateLimitStats(rlStats, rateLimitStore, identifier, now)
  /\ UNCHANGED <<now, auditLog, audited, statusTotal, apiKeySet, fnCall, req>>

\* The clock moves forward.
Tick ==
  /\ \E t \in Instants : t > now /\ now' = t
  /\ rlLast' = [rlLast EXCEPT !.op = "tick"]
  /\ UNCHANGED <<rateLimitStore, rlStats, auditLog, audited, statusTotal, apiKeySet, fnCall, req>>

NoCall ==
  [op |-> "none", id |-> "global", at |-> 0, allowed |-> TRUE, retryAfter |-> NoRetry,
   before |-> NoWindow, deniedBefore |-> 0]

InitRateLimit ==
  /\ now = 0
  /\ rateLimitStore = [i \in Identifiers |-> NoWindow]
  /\ rlStats = [i \in Identifiers |-> [admitted |-> 0, denied |-> 0]]
  /\ rlLast = NoCall
  /\ auditLog = <<>>
  /\ audited = <<>>
  /\ statusTotal = -1
  /\ apiKeySet = TRUE
  /\ fnCall = NoFnCall
  /\ req = NoRequest

NextRateLimit ==
  \/ \E identifier \in Identifiers : CallCheckRateLimit(identifier)
  \/ Tick

SpecRateLimit == InitRateLimit /\ [][NextRateLimit]_vars

\* ------------------------------------------------------------------------
\* Audit log (modules/security.ts auditRequest, getAuditLog)
\* ------------------------------------------------------------------------
ToolNames == {"analyze_image", "upload_to_supabase", "get_security_status", "unknown_tool"}

\* An error: the stage whose prefix wraps the message ('Gemini analysis failed: ',
\* 'Supabase upload failed: ' or none), the message, and the retryAfter it quotes.
Err(stage, cause) == [stage |-> stage, cause |-> cause, retryAfter |-> NoRetry]

NoError == Err("none", "none")

\* The AuditEntry auditRequest builds; n numbers the entries in the order they are audited.
AuditEntry(toolName, success, error, t, n) ==
  [timestamp |-> t, toolName |-> toolName, success |-> success, error |-> error, n |-> n]

\* Mutant: the newest entry is dropped on overflow instead of the oldest.
auditRequest_DropsNewest(log, entry) ==
  LET pushed == Append(log, entry) IN
  IF Len(pushed) > AUDIT_LOG_CAPACITY THEN log ELSE pushed

\* auditLog.push(entry); if (auditLog.length > 1000) auditLog.shift()
auditRequest(log, entry) ==
  LET pushed == Append(log, entry) IN
  IF Len(pushed) > AUDIT_LOG_CAPACITY THEN Tail(pushed) ELSE pushed

\* return [...auditLog]
getAuditLog(log) == log

\* audit_log.total_entries of handleSecurityStatus
TotalEntries(log) == Len(getAuditLog(log))

\* The log already holds this many entries when the audit-log run starts.
AuditHeadroom == 1

MaxAudits == 3

PriorAudits == AUDIT_LOG_CAPACITY - AuditHeadroom

PriorEntry(i) == AuditEntry("analyze_image", TRUE, NoError, 0, i)

CallAuditRequest(toolName, success) ==
  /\ Len(audited) < PriorAudits + MaxAudits
  /\ LET entry == AuditEntry(toolName, success,
                             IF success THEN NoError ELSE Err("none", "failed"),
                             now, Len(audited) + 1)
     IN /\ auditLog' = auditRequest(auditLog, entry)
        /\ audited' = Append(audited, entry)
  /\ UNCHANGED <<now, rateLimitStore, rlStats, rlLast, statusTotal, apiKeySet, fnCall, req>>

ReadSecurityStatus ==
  /\ statusTotal' = TotalEntries(auditLog)
  /\ UNCHANGED <<now, rateLimitStore, rlStats, rlLast, auditLog, audited, apiKeySet, fnCall, req>>

InitAudit ==
  /\ now = 0
  /\ rateLimitStore = [i \in Identifiers |-> NoWindow]
  /\ rlStats = [i \in Identifiers |-> [admitted |-> 0, denied |-> 0]]
  /\ rlLast = NoCall
  /\ auditLog = [i \in 1..PriorAudits |-> PriorEntry(i)]
  /\ audited = [i \in 1..PriorAudits |-> PriorEntry(i)]
  /\ statusTotal = -1
  /\ apiKeySet = TRUE
  /\ fnCall = NoFnCall
  /\ req = NoRequest

NextAudit ==
  \/ \E toolName \in ToolNames, success \in BOOLEAN : CallAuditRequest(toolName, success)
  \/ ReadSecurityStatus

SpecAudit == InitAudit /\ [][NextAudit]_vars

\* ------------------------------------------------------------------------
\* Local dispatcher (index.ts tools/call handler) and the modules it calls
\* ------------------------------------------------------------------------
\* !v
Falsy(v) == v = "absent"

\* typeof v === 'string'
IsString(v) == v \notin {"absent", "nonstring"}

\* Classes of image_path strings: "traversal" contains '..' or '~' (and ends in an
\* allowed extension), "bad_ext" has no allowed extension, "ok" is a plain image path.
PathValues == {"absent", "nonstring", "traversal", "bad_ext", "ok"}

\* Classes of URL strings: "malformed" does not parse, "blocked" fails validateUrl.
UrlValues == {"absent", "nonstring", "malformed", "blocked", "ok"}

\* imagePath.includes('..') || imagePath.includes('~')
ContainsTraversal(p) == p = "traversal"

\* ['.jpg', '.jpeg', '.png', '.webp'].includes(ext)
HasImageExtension(p) == p \in {"traversal", "ok"}

\* Mutant: the directory traversal test is left out.
validateImagePath_IgnoresTraversal(imagePath) == HasImageExtension(imagePath)

validateImagePath(imagePath) ==
  IF ContainsTraversal(imagePath) THEN FALSE ELSE HasImageExtension(imagePath)

\* new URL(url) throws
UrlUnparsable(url) == url = "malformed"

\* validateUrl(url).valid
validateUrl(url) == ~UrlUnparsable(url) /\ url # "blocked"

\* Fields of the objects the modules return.
AnalysisResultFields(source) ==
  {"analysis_type", "confidence", "metadata", "processing_time_ms", "security_scan",
   "integrity_info", "source"} \cup (IF source = "url" THEN {"source_url"} ELSE {})

UploadResultFields ==
  {"success", "path", "public_url", "upload_timestamp", "file_size", "mime_type",
   "integrity_checksum"}

SecurityStatusFields == {"security_config", "rate_limit_status", "audit_log", "server_info"}

\* Mutant: the success response without request_id.
SuccessEnvelope_NoRequestId(resultFields) == resultFields \cup {"processing_time"}

\* { ...result, request_id: requestId, processing_time: Date.now() - startTime }
SuccessEnvelope(resultFields) == resultFields \cup {"request_id", "processing_time"}

ResultResponse(fields) ==
  [kind |-> "result", isError |-> FALSE, fields |-> fields, error |-> NoError]

\* { content: [{ type: 'text', text: `Error: ${message}` }], isError: true }
ErrorResponse(error) == [kind |-> "error", isError |-> TRUE, fields |-> {}, error |-> error]

\* An exception that leaves the handler.
Thrown(error) == [kind |-> "throw", isError |-> FALSE, fields |-> {}, error |-> error]

\* 'Rate limit exceeded. Retry after Ns' (audited) / 'Rate limit exceeded. Please try
\* again in N seconds.' (thrown)
RateLimitError(retryAfter) ==
  [stage |-> "none", cause |-> "Rate limit exceeded", retryAfter |-> retryAfter]

\* The handler's outcome without an audit entry.
Reply(r, response) ==
  /\ req' = [r EXCEPT !.pc = "done", !.response = response,
                       !.stages = Append(@, "RESPONDED")]
  /\ UNCHANGED <<auditLog, audited>>

\* auditRequest(toolName, success, inputHash, error), then the handler's outcome.
AuditAndReply(r, toolName, success, error, response) ==
  LET entry == AuditEntry(toolName, success, error, now, Len(audited) + 1) IN
  /\ auditLog' = auditRequest(auditLog, entry)
  /\ audited' = Append(audited, entry)
  /\ req' = [r EXCEPT !.pc = "done", !.response = response, !.audits = Append(@, entry.n),
                       !.stages = @ \o <<"AUDITED", "RESPONDED">>]

\* Mutant: the failure is reported without the prefix of the failing stage.
ModuleFailure_NoStagePrefix(r, toolName, error) ==
  AuditAndReply(r, toolName, FALSE, [error EXCEPT !.stage = "none"],
                ErrorResponse([error EXCEPT !.stage = "none"]))

\* A throw out of analyzeImageWithGemini / uploadToSupabase: the tool handler's catch
\* audits the failure and rethrows, the outer catch turns it into the error response.
ModuleFailure(r, toolName, error) ==
  AuditAndReply(r, toolName, FALSE, error, ErrorResponse(error))

\* A throw in a tool handler before its try block: only the outer catch sees it.
HandlerFailure(r, error) == Reply(r, ErrorResponse(error))

\* The request is suspended at an await.
Await(r, pc) ==
  /\ req' = [r EXCEPT !.pc = pc]
  /\ UNCHANGED <<auditLog, audited>>

\* The rate-limit branch of the handler: auditRequest(name, false,
\* generateSecureHash(JSON.stringify(args)), ...) and throw. JSON.stringify(undefined)
\* is undefined and Hash.update(undefined) throws a TypeError before auditRequest runs.
RateLimited(r, retryAfter) ==
  IF ~r.args.defined
    THEN Reply(r, Thrown(Err("none", "TypeError: the data argument must be a string")))
    ELSE AuditAndReply(r, r.name, FALSE, RateLimitError(retryAfter),
                       Thrown(RateLimitError(retryAfter)))

\* The argument checks of handleAnalyzeImage; "none" when they pass.
AnalyzeArgError(args) ==
  IF ~args.defined THEN "TypeError: cannot destructure undefined"
  ELSE IF Falsy(args.image_path) /\ Falsy(args.image_url)
    THEN "Either image_path or image_url parameter is required"
  ELSE IF ~Falsy(args.image_path) /\ ~Falsy(args.image_url)
    THEN "Cannot specify both image_path and image_url parameters"
  ELSE IF ~Falsy(args.image_path) /\ ~IsString(args.image_path)
    THEN "Invalid image_path parameter"
  ELSE IF ~Falsy(args.image_url) /\ ~IsString(args.image_url)
    THEN "Invalid image_url parameter"
  ELSE "none"

\* analyzeImageWithGemini up to its first await.
StartGeminiAnalysis(r) ==
  LET imagePath == r.args.image_path
      imageUrl == r.args.image_url
  IN
  IF ~apiKeySet
    THEN ModuleFailure(r, "analyze_image",
                       Err("none", "GEMINI_API_KEY environment variable is required"))
  ELSE IF Falsy(imagePath) /\ Falsy(imageUrl)
    THEN ModuleFailure(r, "analyze_image",
                       Err("none", "Either imagePath or imageUrl must be provided"))
  ELSE IF ~Falsy(imagePath) /\ ~Falsy(imageUrl)
    THEN ModuleFailure(r, "analyze_image",
                       Err("none", "Cannot provide both imagePath and imageUrl"))
  ELSE IF ~Falsy(imagePath)
    THEN IF ~validateImagePath(imagePath)
           THEN ModuleFailure(r, "analyze_image",
                  Err("gemini", "Invalid image path or potential security risk detected"))
           ELSE Await([r EXCEPT !.source = "file", !.fileOps = @ + 1,
                                !.stages = Append(@, "VALIDATED")], "stat")
  ELSE IF UrlUnparsable(imageUrl)
    THEN ModuleFailure(r, "analyze_image", Err("gemini", "Invalid URL format"))
  ELSE IF ~validateUrl(imageUrl)
    THEN ModuleFailure(r, "analyze_image", Err("gemini", "URL validation failed"))
  ELSE Await([r EXCEPT !.source = "url", !.urlFetches = @ + 1,
                       !.stages = Append(@, "VALIDATED")], "fetch")

\* handleAnalyzeImage up to its first await.
handleAnalyzeImage(r) ==
  IF AnalyzeArgError(r.args) # "none"
    THEN HandlerFailure(r, Err("none", AnalyzeArgError(r.args)))
    ELSE StartGeminiAnalysis(r)

\* Classes of the upload arguments.
DataValues == {"absent", "nonstring", "oversized", "ok"}

BucketValues == {"absent", "nonstring", "ok"}

UploadPathValues == {"absent", "nonstring", "traversal", "ok"}

KeyValues == {"absent", "nonstring", "short", "ok"}

SupabaseUrlValues == {"absent", "nonstring", "malformed", "ok"}

\* The argument checks of handleSupabaseUpload; "none" when they pass.
UploadArgError(args) ==
  IF ~args.defined THEN "TypeError: cannot destructure undefined"
  ELSE IF Falsy(args.image_data) \/ ~IsString(args.image_data)
    THEN "Invalid image_data parameter"
  ELSE IF Falsy(args.bucket) \/ ~IsString(args.bucket) THEN "Invalid bucket parameter"
  ELSE IF Falsy(args.path) \/ ~IsString(args.path) THEN "Invalid path parameter"
  ELSE IF Falsy(args.supabase_url) \/ ~IsString(args.supabase_url)
    THEN "Invalid supabase_url parameter"
  ELSE IF Falsy(args.supabase_key) \/ ~IsString(args.supabase_key)
    THEN "Invalid supabase_key parameter"
  ELSE "none"

\* uploadToSupabase up to its await on storage.upload.
StartUpload(r) ==
  IF UrlUnparsable(r.args.supabase_url)
    THEN ModuleFailure(r, "upload_to_supabase", Err("none", "Invalid Supabase URL format"))
  ELSE IF Falsy(r.args.supabase_key) \/ r.args.supabase_key = "short"
    THEN ModuleFailure(r, "upload_to_supabase",
                       Err("none", "Invalid or missing Supabase key"))
  ELSE IF ContainsTraversal(r.args.path)
    THEN ModuleFailure(r, "upload_to_supabase",
                       Err("none", "Invalid upload path - potential directory traversal"))
  ELSE IF r.args.image_data = "oversized"
    THEN ModuleFailure(r, "upload_to_supabase",
                       Err("supabase", "File size exceeds maximum allowed size"))
  ELSE Await([r EXCEPT !.storageCalls = @ + 1,
                       !.stages = @ \o <<"VALIDATED", "DELEGATED">>], "upload")

\* handleSupabaseUpload up to its first await.
handleSupabaseUpload(r) ==
  IF UploadArgError(r.args) # "none"
    THEN HandlerFailure(r, Err("none", UploadArgError(r.args)))
    ELSE StartUpload(r)

\* handleSecurityStatus: the status object, neither request_id nor an audit entry.
handleSecurityStatus(r) == Reply(r, ResultResponse(SecurityStatusFields))

\* The switch of the handler, inside its try block.
DispatchTool(r) ==
  CASE r.name = "analyze_image" -> handleAnalyzeImage(r)
    [] r.name = "upload_to_supabase" -> handleSupabaseUpload(r)
    [] r.name = "get_security_status" -> handleSecurityStatus(r)
    [] OTHER -> HandlerFailure(r, Err("none", "Unknown tool"))

\* The requests the model sends.
\* analysis_type: absent, or one of the two values of the input schema's enum.
AnalysisTypeValues == {"absent", "lifestyle", "product"}

AnalyzeArgs ==
  {[EmptyArgs EXCEPT !.image_path = p, !.image_url = u, !.analysis_type = t] :
     p \in PathValues, u \in UrlValues, t \in AnalysisTypeValues}

ValidUploadArgs ==
  [EmptyArgs EXCEPT !.image_data = "ok", !.bucket = "ok", !.path = "ok",
                    !.supabase_url = "ok", !.supabase_key = "ok"]

\* Upload arguments with at most one bad parameter.
UploadArgs ==
  {[ValidUploadArgs EXCEPT !.image_data = v] : v \in DataValues}
    \cup {[ValidUploadArgs EXCEPT !.bucket = v] : v \in BucketValues}
    \cup {[ValidUploadArgs EXCEPT !.path = v] : v \in UploadPathValues}
    \cup {[ValidUploadArgs EXCEPT !.supabase_url = v] : v \in SupabaseUrlValues}
    \cup {[ValidUploadArgs EXCEPT !.supabase_key = v] : v \in KeyValues}

ArgsOf(name) ==
  {NoArgs} \cup
    (CASE name = "analyze_image" -> AnalyzeArgs
       [] name = "upload_to_supabase" -> UploadArgs
       [] OTHER -> {EmptyArgs})

\* The tools/call handler from its entry to its first await (or to its end).
Receive(name, args) ==
  /\ req.pc = "new"
  /\ LET rateLimitCheck == checkRateLimit(rateLimitStore, "global", now)
         r == [req EXCEPT !.binding = "local", !.name = name, !.args = args,
                          !.stages = <<"RECEIVED", "RATE_CHECKED">>]
     IN /\ rateLimitStore' = rateLimitCheck.store
        /\ IF ~rateLimitCheck.allowed
             THEN RateLimited(r, rateLimitCheck.retryAfter)
             ELSE DispatchTool(r)
        /\ statusTotal' = IF rateLimitCheck.allowed /\ name = "get_security_status"
                            THEN TotalEntries(auditLog)
                            ELSE statusTotal
  /\ rlLast' = RateLimitRecord(rlStats, rateLimitStore, "global", now)
  /\ rlStats' = RateLimitStats(rlStats, rateLimitStore, "global", now)
  /\ UNCHANGED <<now, apiKeySet, fnCall>>

\* await fs.stat(imagePath) settles.
StatDone(outcome) ==
  /\ req.pc = "stat"
  /\ CASE outcome = "fail" ->
            ModuleFailure(req, "analyze_image", Err("gemini", "stat failed"))
       [] outcome = "too_big" ->
            ModuleFailure(req, "analyze_image",
                          Err("gemini", "File size exceeds maximum allowed size"))
       [] OTHER -> Await([req EXCEPT !.fileOps = @ + 1], "read")
  /\ UNCHANGED <<now, rateLimitStore, rlStats, rlLast, statusTotal, apiKeySet, fnCall>>

\* await fs.readFile(imagePath) settles; the extension gives an allowed MIME type and
\* the classification request is sent.
ReadDone(outcome) ==
  /\ req.pc = "read"
  /\ IF outcome = "fail"
       THEN ModuleFailure(req, "analyze_image", Err("gemini", "readFile failed"))
       ELSE Await([req EXCEPT !.aiCalls = @ + 1, !.stages = Append(@, "DELEGATED")],
                  "classify")
  /\ UNCHANGED <<now, rateLimitStore, rlStats, rlLast, statusTotal, apiKeySet, fnCall>>

\* await fetchImageAsBase64(sanitizedUrl) settles; the size is checked, the sniffed MIME
\* type is an allowed one, and the classification request is sent.
FetchDone(outcome) ==
  /\ req.pc = "fetch"
  /\ CASE outcome = "fail" ->
            ModuleFailure(req, "analyze_image", Err("gemini", "fetch failed"))
       [] outcome = "too_big" ->
            ModuleFailure(req, "analyze_image",
                          Err("gemini", "Downloaded image size exceeds maximum allowed size"))
       [] OTHER -> Await([req EXCEPT !.aiCalls = @ + 1,
                                     !.stages = Append(@, "DELEGATED")], "classify")
  /\ UNCHANGED <<now, rateLimitStore, rlStats, rlLast, statusTotal, apiKeySet, fnCall>>

\* await model.generateContent([classificationPrompt, image]) settles; the prompt of the
\* type is scanned by detectPromptInjection (it never matches) and the analysis request
\* is sent.
ClassifyDone(outcome) ==
  /\ req.pc = "classify"
  /\ IF outcome = "fail"
       THEN ModuleFailure(req, "analyze_image", Err("gemini", "classification failed"))
       ELSE Await([req EXCEPT !.aiCalls = @ + 1, !.analysisType = outcome,
                              !.stages = @ \o <<"SCANNED", "DELEGATED">>], "analyze")
  /\ UNCHANGED <<now, rateLimitStore, rlStats, rlLast, statusTotal, apiKeySet, fnCall>>

\* await model.generateContent([sanitizedPrompt, image]) settles; detectPII scans the
\* text of the response before it is parsed.
AnalyzeDone(outcome) ==
  /\ req.pc = "analyze"
  /\ CASE outcome = "fail" ->
            ModuleFailure(req, "analyze_image", Err("gemini", "analysis failed"))
       [] outcome = "unparsable" ->
            ModuleFailure([req EXCEPT !.stages = Append(@, "SCANNED")], "analyze_image",
                          Err("gemini", "Failed to parse Gemini response"))
       [] OTHER ->
            AuditAndReply([req EXCEPT !.stages = Append(@, "SCANNED")],
                          "analyze_image", TRUE, NoError,
                          ResultResponse(SuccessEnvelope(AnalysisResultFields(req.source))))
  /\ UNCHANGED <<now, rateLimitStore, rlStats, rlLast, statusTotal, apiKeySet, fnCall>>

\* await supabase.storage.from(bucket).upload(...) settles.
UploadDone(outcome) ==
  /\ req.pc = "upload"
  /\ IF outcome = "error"
       THEN ModuleFailure(req, "upload_to_supabase", Err("supabase", "upload error"))
       ELSE AuditAndReply(req, "upload_to_supabase", TRUE, NoError,
                          ResultResponse(SuccessEnvelope(UploadResultFields)))
  /\ UNCHANGED <<now, rateLimitStore, rlStats, rlLast, statusTotal, apiKeySet, fnCall>>

\* Another request, in flight while the observed one is suspended at an await, writes
\* its audit entry.
MaxOtherAudits == 1

OtherRequestAudited(success) ==
  /\ req.pc \notin {"new", "done"}
  /\ Len(audited) - Len(req.audits) < MaxOtherAudits
  /\ LET entry == AuditEntry("analyze_image", success,
                             IF success THEN NoError ELSE Err("gemini", "analysis failed"),
                             now, Len(audited) + 1)
     IN /\ auditLog' = auditRequest(auditLog, entry)
        /\ audited' = Append(audited, entry)
  /\ UNCHANGED <<now, rateLimitStore, rlStats, rlLast, statusTotal, apiKeySet, fnCall, req>>

\* Earlier get_security_status requests, all at instant 0, have used up `used` slots of
\* the 'global' window: they leave no audit entry.
UsedSlots == {0, MAX_REQUESTS_PER_WINDOW - 1, MAX_REQUESTS_PER_WINDOW}

Init ==
  /\ now = 0
  /\ \E used \in UsedSlots :
       /\ rateLimitStore =
            [i \in Identifiers |->
               IF i = "global" /\ used > 0
                 THEN [count |-> used, resetTime |-> RATE_LIMIT_WINDOW]
                 ELSE NoWindow]
       /\ rlStats =
            [i \in Identifiers |->
               [admitted |-> IF i = "global" THEN used ELSE 0, denied |-> 0]]
  /\ rlLast = NoCall
  /\ auditLog = <<>>
  /\ audited = <<>>
  /\ statusTotal = -1
  /\ apiKeySet \in BOOLEAN
  /\ fnCall = NoFnCall
  /\ req = NoRequest

Next ==
  \/ \E name \in ToolNames : \E args \in ArgsOf(name) : Receive(name, args)
  \/ \E outcome \in {"fail", "too_big", "ok"} : StatDone(outcome)
  \/ \E outcome \in {"fail", "ok"} : ReadDone(outcome)
  \/ \E outcome \in {"fail", "too_big", "ok"} : FetchDone(outcome)
  \/ \E outcome \in {"fail", "lifestyle", "product"} : ClassifyDone(outcome)
  \/ \E outcome \in {"fail", "unparsable", "ok"} : AnalyzeDone(outcome)
  \/ \E outcome \in {"error", "ok"} : UploadDone(outcome)
  \/ \E success \in BOOLEAN : OtherRequestAudited(success)
  \/ Tick

Spec == Init /\ [][Next]_vars

\* ------------------------------------------------------------------------
\* analyze_image in the four transport bindings: local stdio dispatcher,
\* JSON-RPC edge function (orbit-mcp-server), REST edge function
\* (orbit-gemini-analysis) and stdio-to-HTTP proxy
\* ------------------------------------------------------------------------
Presence == {"absent", "ok"}

\* image_path of a transport call: absent, a path with '..' or '~' and an image
\* extension, or a plain image path
TransportPathValues == {"absent", "traversal", "ok"}

\* analyze_image arguments by which source fields they set; the REST binding reads
\* its storage credentials from the parameters as well.
TransportArgs ==
  {[EmptyArgs EXCEPT !.image_path = p, !.image_data = d, !.image_url = u,
                     !.supabase_url = c, !.supabase_key = c] :
     p \in TransportPathValues, d \in Presence, u \in Presence, c \in Presence}

SourceFields(args) ==
  {f \in {"image_path", "image_data", "image_url"} : ~Falsy(args[f])}

\* Fields of the analysis object of the edge functions.
EdgeResultFields ==
  {"analysis_type", "confidence", "metadata", "processing_time_ms", "security_scan"}

\* { ...result, request_id, processing_time, serverless, edge_location }
JsonRpcEnvelope(resultFields) ==
  resultFields \cup {"source", "request_id", "processing_time", "serverless",
                     "edge_location"}

\* { success: true, result, timestamp, request_id }
RestEnvelope(resultFields) ==
  resultFields \cup {"serverless", "gemini_model", "success", "timestamp", "request_id"}

\* The JSON-RPC error object, or the REST body with success: false.
EdgeError(error) == [kind |-> "edge_error", isError |-> FALSE, fields |-> {}, error |-> error]

\* catch of handleToolCall (a row in mcp_requests, the JSON-RPC error); the proxy
\* turns the error into its own error response. catch of the REST serve: status 500.
EdgeFailure(r, error) ==
  CASE r.binding = "jsonrpc" -> Reply([r EXCEPT !.dbRows = @ + 1], EdgeError(error))
    [] r.binding = "proxy" -> Reply([r EXCEPT !.dbRows = @ + 1], ErrorResponse(error))
    [] OTHER -> Reply(r, EdgeError(error))

\* The analysis returned: a row in mcp_requests (JSON-RPC) or in mcp_audit_log (REST),
\* then the result in the binding's envelope.
EdgeSuccess(r) ==
  Reply([r EXCEPT !.dbRows = @ + 1],
        ResultResponse(IF r.binding = "rest" THEN RestEnvelope(EdgeResultFields)
                                             ELSE JsonRpcEnvelope(EdgeResultFields)))

\* executeAnalyzeImage of the JSON-RPC edge function up to its first await.
JsonRpcExecuteAnalyzeImage(r, params) ==
  IF ~apiKeySet THEN EdgeFailure(r, Err("none", "GEMINI_API_KEY not configured"))
  ELSE IF ~Falsy(params.image_data)
    THEN Await([r EXCEPT !.source = "base64", !.aiCalls = @ + 1], "edge_ai")
  ELSE IF ~Falsy(params.image_path)
    THEN Await([r EXCEPT !.source = "storage", !.fileOps = @ + 1], "edge_download")
  ELSE IF ~Falsy(params.image_url)
    THEN IF ~validateUrl(params.image_url)
           THEN EdgeFailure(r, Err("none", "URL validation failed"))
           ELSE Await([r EXCEPT !.source = "url", !.urlFetches = @ + 1], "edge_fetch")
  ELSE EdgeFailure(r, Err("none", "Either image_path, image_data, or image_url is required"))

\* handleToolCall of the JSON-RPC edge function for analyze_image, keyed by request.id.
JsonRpcHandleToolCall(r, params) ==
  LET rateLimitCheck == checkRateLimit(rateLimitStore, "client", now) IN
  /\ rateLimitStore' = rateLimitCheck.store
  /\ rlLast' = RateLimitRecord(rlStats, rateLimitStore, "client", now)
  /\ rlStats' = RateLimitStats(rlStats, rateLimitStore, "client", now)
  /\ IF ~rateLimitCheck.allowed
       THEN Reply(r, IF r.binding = "proxy"
                       THEN ErrorResponse(RateLimitError(rateLimitCheck.retryAfter))
                       ELSE EdgeError(RateLimitError(rateLimitCheck.retryAfter)))
       ELSE JsonRpcExecuteAnalyzeImage(r, params)

JsonRpcCall(args) ==
  /\ req.pc = "new"
  /\ JsonRpcHandleToolCall(
       [req EXCEPT !.binding = "jsonrpc", !.name = "analyze_image", !.args = args], args)
  /\ UNCHANGED <<now, statusTotal, apiKeySet, fnCall>>

\* executeAnalyzeImage of the REST edge function up to its first await.
RestExecuteAnalyzeImage(r, parameters) ==
  IF ~apiKeySet THEN EdgeFailure(r, Err("none", "GEMINI_API_KEY not configured"))
  ELSE IF Falsy(parameters.image_path) /\ Falsy(parameters.image_data)
    THEN EdgeFailure(r, Err("none", "Either image_path or image_data parameter is required"))
  ELSE IF ~Falsy(parameters.image_path) /\ ContainsTraversal(parameters.image_path)
    THEN EdgeFailure(r, Err("none", "Invalid image path detected"))
  ELSE IF ~Falsy(parameters.image_data)
    THEN IF parameters.image_data = "oversized"
           THEN EdgeFailure(r, Err("gemini", "Image size exceeds maximum allowed limit"))
           ELSE Await([r EXCEPT !.source = "base64", !.aiCalls = @ + 1], "edge_ai")
  ELSE IF ~Falsy(parameters.supabase_url) /\ ~Falsy(parameters.supabase_key)
    THEN Await([r EXCEPT !.source = "storage", !.fileOps = @ + 1], "edge_download")
  ELSE EdgeFailure(r, Err("gemini", "Invalid image source"))

\* serve of the REST edge function for an analyze_image request: rate limit (429
\* without an audit row), validateRequest, executeMCPTool.
RestCall(args) ==
  /\ req.pc = "new"
  /\ LET rateLimitCheck == checkRateLimit(rateLimitStore, "client", now)
         r == [req EXCEPT !.binding = "rest", !.name = "analyze_image", !.args = args]
     IN /\ rateLimitStore' = rateLimitCheck.store
        /\ IF ~rateLimitCheck.allowed
             THEN Reply(r, EdgeError(RateLimitError(rateLimitCheck.retryAfter)))
           ELSE IF ~Falsy(args.image_path) /\ ContainsTraversal(args.image_path)
             THEN EdgeFailure(r, Err("none", "Invalid file path detected"))
           ELSE RestExecuteAnalyzeImage(r, args)
  /\ rlLast' = RateLimitRecord(rlStats, rateLimitStore, "client", now)
  /\ rlStats' = RateLimitStats(rlStats, rateLimitStore, "client", now)
  /\ UNCHANGED <<now, statusTotal, apiKeySet, fnCall>>

\* The proxy's handler for analyze_image up to its first await: without image_data it
\* reads image_path or fetches image_url itself, otherwise it forwards the arguments.
ProxyCall(args) ==
  /\ req.pc = "new"
  /\ LET r == [req EXCEPT !.binding = "proxy", !.name = "analyze_image", !.args = args,
                          !.forwarded = args]
     IN IF Falsy(args.image_data) /\ ~Falsy(args.image_path)
          THEN IF ~HasImageExtension(args.image_path)
                 THEN Reply(r, ErrorResponse(Err("proxy", "Unsupported file extension")))
                 ELSE Await([r EXCEPT !.fileOps = @ + 1], "proxy_read")
        ELSE IF Falsy(args.image_data) /\ ~Falsy(args.image_url)
          THEN IF UrlUnparsable(args.image_url) \/ ~validateUrl(args.image_url)
                 THEN Reply(r, ErrorResponse(Err("proxy", "URL validation failed")))
                 ELSE Await([r EXCEPT !.urlFetches = @ + 1], "proxy_fetch")
        ELSE Await(r, "proxy_forward")
  /\ UNCHANGED <<now, rateLimitStore, rlStats, rlLast, statusTotal, apiKeySet, fnCall>>

\* await fs.readFile(imagePath) settles in the proxy: image_path is replaced by image_data.
ProxyReadDone(outcome) ==
  /\ req.pc = "proxy_read"
  /\ IF outcome = "fail"
       THEN Reply(req, ErrorResponse(Err("proxy", "Failed to load image")))
       ELSE Await([req EXCEPT !.forwarded.image_data = "ok",
                              !.forwarded.image_path = "absent"], "proxy_forward")
  /\ UNCHANGED <<now, rateLimitStore, rlStats, rlLast, statusTotal, apiKeySet, fnCall>>

\* await fetchImageAsBase64(sanitizedUrl) settles in the proxy: image_url is replaced
\* by image_data.
ProxyFetchDone(outcome) ==
  /\ req.pc = "proxy_fetch"
  /\ IF outcome = "fail"
       THEN Reply(req, ErrorResponse(Err("proxy", "Failed to fetch image from URL")))
       ELSE Await([req EXCEPT !.forwarded.image_data = "ok",
                              !.forwarded.image_url = "absent"], "proxy_forward")
  /\ UNCHANGED <<now, rateLimitStore, rlStats, rlLast, statusTotal, apiKeySet, fnCall>>

\* forwardMCPRequest('tools/call', ...): the edge function receives the processed
\* arguments, or the HTTP request fails.
ProxyForward(outcome) ==
  /\ req.pc = "proxy_forward"
  /\ IF outcome = "fail"
       THEN /\ Reply(req, ErrorResponse(Err("proxy", "Supabase request failed")))
            /\ UNCHANGED <<rateLimitStore, rlStats, rlLast>>
       ELSE JsonRpcHandleToolCall(req, req.forwarded)
  /\ UNCHANGED <<now, statusTotal, apiKeySet, fnCall>>

\* await supabase.storage.from(bucket).download(filePath) settles in an edge function.
EdgeDownloadDone(outcome) ==
  /\ req.pc = "edge_download"
  /\ IF outcome = "fail"
       THEN EdgeFailure(req, Err(IF req.binding = "rest" THEN "gemini" ELSE "none",
                                 "Failed to load image"))
       ELSE Await([req EXCEPT !.aiCalls = @ + 1], "edge_ai")
  /\ UNCHANGED <<now, rateLimitStore, rlStats, rlLast, statusTotal, apiKeySet, fnCall>>

\* await fetch(url) of fetchImageFromUrl settles in the JSON-RPC edge function.
EdgeFetchDone(outcome) ==
  /\ req.pc = "edge_fetch"
  /\ IF outcome = "fail"
       THEN EdgeFailure(req, Err("none", "Failed to fetch image"))
       ELSE Await([req EXCEPT !.aiCalls = @ + 1], "edge_ai")
  /\ UNCHANGED <<now, rateLimitStore, rlStats, rlLast, statusTotal, apiKeySet, fnCall>>

\* await fetch(generateContent) settles in an edge function.
EdgeAiDone(outcome) ==
  /\ req.pc = "edge_ai"
  /\ CASE outcome = "fail" ->
            EdgeFailure(req, Err(IF req.binding = "rest" THEN "gemini" ELSE "none",
                                 "Gemini API error"))
       [] outcome = "unparsable" ->
            EdgeFailure(req, Err(IF req.binding = "rest" THEN "gemini" ELSE "none",
                                 "Failed to parse Gemini response"))
       [] OTHER ->
            \* const finalAnalysisType = analysisType || 'lifestyle'
            EdgeSuccess([req EXCEPT !.analysisType =
                           IF Falsy(req.args.analysis_type) THEN "lifestyle"
                                                            ELSE req.args.analysis_type])
  /\ UNCHANGED <<now, rateLimitStore, rlStats, rlLast, statusTotal, apiKeySet, fnCall>>

\* Each serving process starts with a fresh or an exhausted window for its caller.
InitTransports ==
  /\ now = 0
  /\ \E used \in {0, MAX_REQUESTS_PER_WINDOW} :
       /\ rateLimitStore =
            [i \in Identifiers |->
               IF used > 0 THEN [count |-> used, resetTime |-> RATE_LIMIT_WINDOW]
                           ELSE NoWindow]
       /\ rlStats = [i \in Identifiers |-> [admitted |-> used, denied |-> 0]]
  /\ rlLast = NoCall
  /\ auditLog = <<>>
  /\ audited = <<>>
  /\ statusTotal = -1
  /\ apiKeySet \in BOOLEAN
  /\ fnCall = NoFnCall
  /\ req = NoRequest

NextTransports ==
  \/ \E args \in TransportArgs : JsonRpcCall(args)
  \/ \E args \in TransportArgs : Receive("analyze_image", args)
  \/ \E outcome \in {"fail", "too_big", "ok"} : StatDone(outcome)
  \/ \E outcome \in {"fail", "ok"} : ReadDone(outcome)
  \/ \E outcome \in {"fail", "too_big", "ok"} : FetchDone(outcome)
  \/ \E outcome \in {"fail", "lifestyle", "product"} : ClassifyDone(outcome)
  \/ \E outcome \in {"fail", "unparsable", "ok"} : AnalyzeDone(outcome)
  \/ \E args \in TransportArgs : RestCall(args)
  \/ \E args \in TransportArgs : ProxyCall(args)
  \/ \E outcome \in {"fail", "ok"} : ProxyReadDone(outcome)
  \/ \E outcome \in {"fail", "ok"} : ProxyFetchDone(outcome)
  \/ \E outcome \in {"fail", "ok"} : ProxyForward(outcome)
  \/ \E outcome \in {"fail", "ok"} : EdgeDownloadDone(outcome)
  \/ \E outcome \in {"fail", "ok"} : EdgeFetchDone(outcome)
  \/ \E outcome \in {"fail", "unparsable", "ok"} : EdgeAiDone(outcome)

SpecTransports == InitTransports /\ [][NextTransports]_vars

\* ------------------------------------------------------------------------
\* Prompt-injection scan (modules/security.ts detectPromptInjection)
\* ------------------------------------------------------------------------
\* The regular expressions of injectionPatterns, in the order of the array.
InjectionPatterns ==
  <<"ignore_previous_instructions", "forget_instructions", "system_you_are_now",
    "system_tag", "developer_mode", "jailbreak", "prompt_injection", "override_safety",
    "script_tag", "javascript_scheme", "data_text_html">>

PatternSet == {InjectionPatterns[i] : i \in 1..Len(InjectionPatterns)}

\* detected: confidence > 0.3, written as confidence * 10 > ConfidenceThresholdTenths
ConfidenceThresholdTenths == 3

\* A text is described by the patterns that match it and by what its first
\* base64-shaped substring decodes to (<<>> when it has none); the decoded payload is
\* a text again, nested at most MaxNesting deep.
MaxMatched == 4

MaxEncodedMatched == 4

MaxNesting == 2

\* The first k patterns of the list
PrefixPatterns(k) == {InjectionPatterns[i] : i \in 1..k}

\* A decoded payload matches no pattern, half of MaxEncodedMatched or MaxEncodedMatched
\* of them.
PayloadMatches ==
  {PrefixPatterns(k) : k \in {0, MaxEncodedMatched \div 2, MaxEncodedMatched}}

RECURSIVE Payloads(_)
Payloads(depth) ==
  IF depth = 0 THEN {<<>>}
  ELSE {<<>>} \cup {<<[matches |-> m, encoded |-> e]>> :
                      m \in PayloadMatches, e \in Payloads(depth - 1)}

\* The outer text matches any MaxMatched patterns or fewer, or the first k of the list
\* for any k.
TextMatches ==
  {x \in SUBSET PatternSet : Cardinality(x) <= MaxMatched} \cup
    {PrefixPatterns(k) : k \in 0..Len(InjectionPatterns)}

Texts == {[matches |-> m, encoded |-> e] : m \in TextMatches, e \in Payloads(MaxNesting)}

\* Mutant: a detected payload counts like one pattern.
InjectionScore_PayloadUnweighted(matched, payloadDetected) ==
  Len(matched) + (IF payloadDetected THEN 1 ELSE 0)

\* score++ for every matching pattern, score += 2 for a detected payload
InjectionScore(matched, payloadDetected) ==
  Len(matched) + (IF payloadDetected THEN 2 ELSE 0)

RECURSIVE detectPromptInjection(_)

\* The result: confidence is the fraction confidenceNum / Len(InjectionPatterns).
detectPromptInjection(input) ==
  LET Matches(pattern) == pattern \in input.matches
      matched == SelectSeq(InjectionPatterns, Matches)
      inner == IF input.encoded = <<>>
                 THEN FALSE
                 ELSE detectPromptInjection(input.encoded[1]).detected
      score == InjectionScore(matched, inner)
      confidenceNum == IF score < Len(InjectionPatterns) THEN score
                                                         ELSE Len(InjectionPatterns)
  IN [detected |-> confidenceNum * 10 > ConfidenceThresholdTenths * Len(InjectionPatterns),
      confidenceNum |-> confidenceNum,
      patterns |-> matched \o (IF inner THEN <<"base64_encoded_injection">> ELSE <<>>)]

\* The depth of the calls detectPromptInjection makes to itself on `input`: it calls
\* itself on the decoded text whenever base64Pattern matches, at every level.
RECURSIVE RecursionDepth(_)
RecursionDepth(input) ==
  IF input.encoded = <<>> THEN 0 ELSE 1 + RecursionDepth(input.encoded[1])

\* One call of detectPromptInjection on the text drawn at the start.
ScanText ==
  /\ fnCall.fn = "detectPromptInjection"
  /\ ~fnCall.done
  /\ fnCall' = [fnCall EXCEPT !.done = TRUE, !.output = detectPromptInjection(fnCall.input),
                              !.depth = RecursionDepth(fnCall.input)]
  /\ UNCHANGED <<now, rateLimitStore, rlStats, rlLast, auditLog, audited, statusTotal,
                 apiKeySet, req>>

NoInjectionResult == [detected |-> FALSE, confidenceNum |-> 0, patterns |-> <<>>]

InitInjection ==
  /\ now = 0
  /\ rateLimitStore = [i \in Identifiers |-> NoWindow]
  /\ rlStats = [i \in Identifiers |-> [admitted |-> 0, denied |-> 0]]
  /\ rlLast = NoCall
  /\ auditLog = <<>>
  /\ audited = <<>>
  /\ statusTotal = -1
  /\ apiKeySet = TRUE
  /\ req = NoRequest
  /\ \E text \in Texts :
       fnCall = [fn |-> "detectPromptInjection", input |-> text, done |-> FALSE,
                 output |-> NoInjectionResult, depth |-> 0]

NextInjection == ScanText

SpecInjection == InitInjection /\ [][NextInjection]_vars

\* C12: a text that matches the pattern 'ignore (all) previous instructions' and holds
\* no base64-shaped substring is reported with detected = true; a text that matches no
\* pattern and holds no base64-shaped substring is reported with detected = false,
\* confidence 0 and no pattern.
C12_InstructionOverrideDetected ==
  (fnCall.fn = "detectPromptInjection" /\ fnCall.done /\ fnCall.input.encoded = <<>>) =>
     /\ ("ignore_previous_instructions" \in fnCall.input.matches) => fnCall.output.detected
     /\ (fnCall.input.matches = {}) => fnCall.output = NoInjectionResult

\* ------------------------------------------------------------------------
\* URL validation (utils/url-fetcher.ts validateUrl, fetchImageFromUrl; validateUrl of
\* the JSON-RPC edge function)
\* ------------------------------------------------------------------------
\* A host as new URL(url).hostname serialises it: a domain is its labels, an IPv4
\* address its four numbers, an IPv6 address its text, which the URL parser puts in
\* square brackets (bracketed); the blocklist entry '::1' is the bare text.
DomainName(labels) ==
  [kind |-> "domain", labels |-> labels, octets |-> <<>>, bracketed |-> FALSE]

IPv4(a, b, c, d) ==
  [kind |-> "ipv4", labels |-> <<>>, octets |-> <<a, b, c, d>>, bracketed |-> FALSE]

IPv6Text(text, bracketed) ==
  [kind |-> "ipv6", labels |-> <<text>>, octets |-> <<>>, bracketed |-> bracketed]

\* parsedUrl.hostname of a URL whose host is the IPv6 address `text`
IPv6Hostname(text) == IPv6Text(text, TRUE)

MaxLabels == 3

Labels == {"localhost", "metadata", "google", "internal", "example", "com"}

FirstOctets == {0, 8, 10, 127, 169, 172, 192}

SecondOctets == {0, 15, 16, 31, 32, 168, 254}

ThirdOctets == {0, 169}

FourthOctets == {0, 1, 254}

Hosts ==
  {DomainName(l) : l \in UNION {[1..n -> Labels] : n \in 1..MaxLabels}}
    \cup {IPv4(a, b, c, d) :
            a \in FirstOctets, b \in SecondOctets, c \in ThirdOctets, d \in FourthOctets}
    \cup {IPv6Hostname("::1")}

Schemes == {"http:", "https:", "ftp:", "file:"}

\* No port is written in the URL.
NoPort == -1

Ports == {NoPort, 22, 80, 443, 8000, 8080}

Urls ==
  {[wellFormed |-> TRUE, protocol |-> s, host |-> h, port |-> p] :
     s \in Schemes, h \in Hosts, p \in Ports}
    \cup {[wellFormed |-> FALSE, protocol |-> "http:", host |-> DomainName(<<"example">>),
           port |-> NoPort]}

ALLOWED_PROTOCOLS == {"https:", "http:"}

BLOCKED_DOMAINS ==
  {DomainName(<<"localhost">>), IPv4(127, 0, 0, 1), IPv4(0, 0, 0, 0), IPv6Text("::1", FALSE),
   DomainName(<<"metadata", "google", "internal">>), IPv4(169, 254, 169, 254)}

BLOCKED_PORTS ==
  {22, 23, 25, 53, 80, 135, 139, 445, 993, 995, 1433, 1521, 3306, 3389, 5432, 5984, 6379,
   8080, 9200, 27017}

\* The default port of the scheme, which the URL parser drops from parsedUrl.port.
DefaultPort(protocol) ==
  CASE protocol = "http:" -> 80
    [] protocol = "https:" -> 443
    [] protocol = "ftp:" -> 21
    [] OTHER -> NoPort

\* parsedUrl.port: '' (NoPort) when absent or equal to the scheme's default
ParsedPort(url) == IF url.port = DefaultPort(url.protocol) THEN NoPort ELSE url.port

\* hostname.endsWith(`.${domain}`): the host has more labels and ends with the domain's
EndsWithDomain(hostname, domain) ==
  /\ hostname.kind = "domain"
  /\ domain.kind = "domain"
  /\ Len(hostname.labels) > Len(domain.labels)
  /\ SubSeq(hostname.labels, Len(hostname.labels) - Len(domain.labels) + 1,
            Len(hostname.labels)) = domain.labels

\* blockedDomains.some(domain => hostname === domain || hostname.endsWith(`.${domain}`))
IsBlockedDomain(hostname) ==
  \E domain \in BLOCKED_DOMAINS : hostname = domain \/ EndsWithDomain(hostname, domain)

\* ipPattern.test(hostname) and the private-range test on its parts
IsPrivateIp(hostname) ==
  /\ hostname.kind = "ipv4"
  /\ LET parts == hostname.octets IN
     \/ parts[1] = 10
     \/ parts[1] = 172 /\ parts[2] >= 16 /\ parts[2] <= 31
     \/ parts[1] = 192 /\ parts[2] = 168
     \/ parts[1] = 127

\* const port = parsedUrl.port ? parseInt(parsedUrl.port) : (https ? 443 : 80)
CheckedPort(url) ==
  IF ParsedPort(url) # NoPort THEN ParsedPort(url)
  ELSE IF url.protocol = "https:" THEN 443 ELSE 80

UrlVerdict(valid, error) == [valid |-> valid, error |-> error]

\* validateUrl of utils/url-fetcher.ts, without caller options.
ValidateUrl(url) ==
  IF ~url.wellFormed THEN UrlVerdict(FALSE, "Invalid URL")
  ELSE IF url.protocol \notin ALLOWED_PROTOCOLS THEN UrlVerdict(FALSE, "Protocol not allowed")
  ELSE IF IsBlockedDomain(url.host) THEN UrlVerdict(FALSE, "Domain is blocked")
  ELSE IF IsPrivateIp(url.host) THEN UrlVerdict(FALSE, "Private IP address is blocked")
  ELSE IF CheckedPort(url) \in BLOCKED_PORTS THEN UrlVerdict(FALSE, "Port is blocked")
  ELSE UrlVerdict(TRUE, "none")

\* validateUrl of the JSON-RPC edge function: the same tests without the port test.
EdgeValidateUrl(url) ==
  IF ~url.wellFormed THEN UrlVerdict(FALSE, "Invalid URL")
  ELSE IF url.protocol \notin {"https:", "http:"} THEN UrlVerdict(FALSE, "Protocol not allowed")
  ELSE IF IsBlockedDomain(url.host) THEN UrlVerdict(FALSE, "Domain is blocked")
  ELSE IF IsPrivateIp(url.host) THEN UrlVerdict(FALSE, "Private IP address is blocked")
  ELSE UrlVerdict(TRUE, "none")

NoVerdict == UrlVerdict(FALSE, "not called")

\* One call of validateUrl, in the local module and in the edge function.
CallValidateUrl ==
  /\ fnCall.fn = "validateUrl"
  /\ fnCall.step = "start"
  /\ fnCall' = [fnCall EXCEPT !.step = "validated", !.output = ValidateUrl(fnCall.input),
                              !.edgeOutput = EdgeValidateUrl(fnCall.input)]
  /\ UNCHANGED <<now, rateLimitStore, rlStats, rlLast, auditLog, audited, statusTotal,
                 apiKeySet, req>>

\* fetchImageFromUrl: it validates the URL and only then sends the first request.
CallFetchImageFromUrl ==
  /\ fnCall.fn = "validateUrl"
  /\ fnCall.step = "start"
  /\ fnCall' = [fnCall EXCEPT !.step = "fetched", !.output = ValidateUrl(fnCall.input),
                              !.edgeOutput = EdgeValidateUrl(fnCall.input),
                              !.requested = ValidateUrl(fnCall.input).valid,
                              !.edgeRequested = EdgeValidateUrl(fnCall.input).valid]
  /\ UNCHANGED <<now, rateLimitStore, rlStats, rlLast, auditLog, audited, statusTotal,
                 apiKeySet, req>>

InitUrl ==
  /\ now = 0
  /\ rateLimitStore = [i \in Identifiers |-> NoWindow]
  /\ rlStats = [i \in Identifiers |-> [admitted |-> 0, denied |-> 0]]
  /\ rlLast = NoCall
  /\ auditLog = <<>>
  /\ audited = <<>>
  /\ statusTotal = -1
  /\ apiKeySet = TRUE
  /\ req = NoRequest
  /\ \E url \in Urls :
       fnCall = [fn |-> "validateUrl", input |-> url, step |-> "start",
                 output |-> NoVerdict, edgeOutput |-> NoVerdict,
                 requested |-> FALSE, edgeRequested |-> FALSE]

NextUrl ==
  \/ CallValidateUrl
  \/ CallFetchImageFromUrl

SpecUrl == InitUrl /\ [][NextUrl]_vars

\* ------------------------------------------------------------------------
\* MIME detection (utils/mime-detection.ts detectMimeType; detectMimeTypeEdge of the
\* REST edge function)
\* ------------------------------------------------------------------------
\* A path is a file name without directories: `stem`, or `stem.suffix`; the stem may
\* be empty ('.png') and so may the suffix ('photo.').
NoSuffix == "<no dot>"

Stems == {"", "photo", "png", "constructor"}

Suffixes ==
  {NoSuffix, "", "jpg", "jpeg", "png", "webp", "JPG", "Png", "gif", "txt", "constructor",
   "__proto__"}

Paths == {[stem |-> st, suffix |-> su] : st \in Stems, su \in Suffixes}

\* String.prototype.toLowerCase on the names above
ToLowerCase(str) ==
  CASE str = "JPG" -> "jpg"
    [] str = "Png" -> "png"
    [] OTHER -> str

\* const mimeMap = { jpg, jpeg, png, webp }
mimeMap ==
  [jpg |-> "image/jpeg", jpeg |-> "image/jpeg", png |-> "image/png", webp |-> "image/webp"]

\* The buffer: absent (<<>> in `given`) or its bytes; the bytes tried at each offset
\* are those of the three signatures and one other.
MaxBufferLen == 4

BytesAt(i) ==
  CASE i = 1 -> {137, 255, 82, 0}
    [] i = 2 -> {80, 216, 73, 0}
    [] i = 3 -> {78, 255, 70, 0}
    [] i = 4 -> {71, 70, 0}
    [] OTHER -> {0, 255}

RECURSIVE BuffersOfLen(_)
BuffersOfLen(n) ==
  IF n = 0 THEN {<<>>}
           ELSE {Append(b, byte) : b \in BuffersOfLen(n - 1), byte \in BytesAt(n)}

Buffers ==
  {[given |-> FALSE, bytes |-> <<>>]} \cup
    {[given |-> TRUE, bytes |-> b] : b \in UNION {BuffersOfLen(n) : n \in 0..MaxBufferLen}}

\* The signature tests on the first four bytes; "none" when no signature matches.
SignatureType(buffer) ==
  IF ~(buffer.given /\ Len(buffer.bytes) >= 4) THEN "none"
  ELSE LET signature == buffer.bytes IN
       IF signature[1] = 137 /\ signature[2] = 80 /\ signature[3] = 78 /\ signature[4] = 71
         THEN "image/png"
       ELSE IF signature[1] = 255 /\ signature[2] = 216 /\ signature[3] = 255
         THEN "image/jpeg"
       ELSE IF signature[1] = 82 /\ signature[2] = 73 /\ signature[3] = 70 /\ signature[4] = 70
         THEN "image/webp"
       ELSE "none"

\* path.extname(uploadPath).toLowerCase() without its dot; NoSuffix stands for ''.
\* extname is '' for a name without a dot and for a name whose only dot is the first
\* character.
Extname(uploadPath) ==
  IF uploadPath.suffix = NoSuffix \/ uploadPath.stem = ""
    THEN NoSuffix
    ELSE ToLowerCase(uploadPath.suffix)

\* detectMimeType: mimeMap is keyed by '.jpg' ... so only the four extensions hit it.
detectMimeType(uploadPath, buffer) ==
  IF Extname(uploadPath) \in DOMAIN mimeMap THEN mimeMap[Extname(uploadPath)]
  ELSE IF SignatureType(buffer) # "none" THEN SignatureType(buffer)
  ELSE "image/jpeg"

\* uploadPath.toLowerCase().split('.').pop() || '': the text after the last dot, the
\* whole name when it has no dot
EdgeExt(uploadPath) ==
  IF uploadPath.suffix = NoSuffix THEN ToLowerCase(uploadPath.stem)
                                  ELSE ToLowerCase(uploadPath.suffix)

\* mimeMap[ext] of the edge function: mimeMap is an object literal keyed by 'jpg' ...,
\* so the keys inherited from Object.prototype are found as well (truthy non-strings).
EdgeMimeMapLookup(ext) ==
  CASE ext \in DOMAIN mimeMap -> mimeMap[ext]
    [] ext = "constructor" -> "[Function: Object]"
    [] ext = "__proto__" -> "[Object: null prototype]"
    [] OTHER -> "undefined"

detectMimeTypeEdge(uploadPath, buffer) ==
  IF EdgeMimeMapLookup(EdgeExt(uploadPath)) # "undefined"
    THEN EdgeMimeMapLookup(EdgeExt(uploadPath))
  ELSE IF SignatureType(buffer) # "none" THEN SignatureType(buffer)
  ELSE "image/jpeg"

\* One call of detectMimeType and of detectMimeTypeEdge on the same arguments.
CallDetectMimeType ==
  /\ fnCall.fn = "detectMimeType"
  /\ ~fnCall.done
  /\ fnCall' = [fnCall EXCEPT !.done = TRUE,
                              !.output = detectMimeType(fnCall.path, fnCall.buffer),
                              !.edgeOutput = detectMimeTypeEdge(fnCall.path, fnCall.buffer)]
  /\ UNCHANGED <<now, rateLimitStore, rlStats, rlLast, auditLog, audited, statusTotal,
                 apiKeySet, req>>

InitMime ==
  /\ now = 0
  /\ rateLimitStore = [i \in Identifiers |-> NoWindow]
  /\ rlStats = [i \in Identifiers |-> [admitted |-> 0, denied |-> 0]]
  /\ rlLast = NoCall
  /\ auditLog = <<>>
  /\ audited = <<>>
  /\ statusTotal = -1
  /\ apiKeySet = TRUE
  /\ req = NoRequest
  /\ \E uploadPath \in Paths, buffer \in Buffers :
       fnCall = [fn |-> "detectMimeType", path |-> uploadPath, buffer |-> buffer,
                 done |-> FALSE, output |-> "none", edgeOutput |-> "none"]

NextMime == CallDetectMimeType

SpecMime == InitMime /\ [][NextMime]_vars

\* ------------------------------------------------------------------------
\* Typing of a loaded image (modules/gemini-analysis.ts, utils/url-fetcher.ts)
\* ------------------------------------------------------------------------
\* SECURITY_CONFIG.ALLOWED_MIME_TYPES
ALLOWED_MIME_TYPES == {"image/jpeg", "image/jpg", "image/png", "image/webp"}

\* detectMimeType('', buffer): the path of content that was downloaded
EmptyPath == [stem |-> "", suffix |-> NoSuffix]

\* The extension test of validateImagePath on a path without '..' or '~'
PathHasImageExtension(imagePath) == Extname(imagePath) \in {"jpg", "jpeg", "png", "webp"}

ImageSources == {"file", "url"}

\* imagePath branch: validateImagePath, readFile, detectMimeType(imagePath, imageBuffer),
\* then the ALLOWED_MIME_TYPES test.
LoadImageFromFile ==
  /\ fnCall.fn = "loadImage"
  /\ fnCall.step = "start"
  /\ fnCall.source = "file"
  /\ LET mimeType == detectMimeType(fnCall.path, fnCall.buffer) IN
       fnCall' =
         IF ~PathHasImageExtension(fnCall.path)
           THEN [fnCall EXCEPT !.step = "rejected", !.error = "Invalid image path"]
         ELSE IF mimeType \notin ALLOWED_MIME_TYPES
           THEN [fnCall EXCEPT !.step = "rejected", !.error = "Unsupported file type",
                               !.mimeType = mimeType]
         ELSE [fnCall EXCEPT !.step = "typed", !.mimeType = mimeType]
  /\ UNCHANGED <<now, rateLimitStore, rlStats, rlLast, auditLog, audited, statusTotal,
                 apiKeySet, req>>

\* imageUrl branch: fetchImageFromUrl types the body with detectMimeType('', buffer) and
\* tests it against ALLOWED_MIME_TYPES; the analysis tests the same type again.
LoadImageFromUrl ==
  /\ fnCall.fn = "loadImage"
  /\ fnCall.step = "start"
  /\ fnCall.source = "url"
  /\ LET detectedMimeType == detectMimeType(EmptyPath, fnCall.buffer) IN
       fnCall' =
         IF detectedMimeType \notin ALLOWED_MIME_TYPES
           THEN [fnCall EXCEPT !.step = "rejected",
                               !.error = "Detected MIME type is not allowed",
                               !.mimeType = detectedMimeType]
           ELSE [fnCall EXCEPT !.step = "typed", !.mimeType = detectedMimeType]
  /\ UNCHANGED <<now, rateLimitStore, rlStats, rlLast, auditLog, audited, statusTotal,
                 apiKeySet, req>>

\* model.generateContent([classificationPrompt, { inlineData: { data, mimeType } }])
SendImageToAi ==
  /\ fnCall.fn = "loadImage"
  /\ fnCall.step = "typed"
  /\ fnCall' = [fnCall EXCEPT !.step = "sent", !.aiCalls = @ + 1]
  /\ UNCHANGED <<now, rateLimitStore, rlStats, rlLast, auditLog, audited, statusTotal,
                 apiKeySet, req>>

InitImageType ==
  /\ now = 0
  /\ rateLimitStore = [i \in Identifiers |-> NoWindow]
  /\ rlStats = [i \in Identifiers |-> [admitted |-> 0, denied |-> 0]]
  /\ rlLast = NoCall
  /\ auditLog = <<>>
  /\ audited = <<>>
  /\ statusTotal = -1
  /\ apiKeySet = TRUE
  /\ req = NoRequest
  /\ \E source \in ImageSources, imagePath \in Paths, buffer \in Buffers :
       /\ buffer.given
       /\ source = "url" => imagePath = EmptyPath
       /\ fnCall = [fn |-> "loadImage", source |-> source, path |-> imagePath,
                    buffer |-> buffer, step |-> "start", mimeType |-> "none",
                    error |-> "none", aiCalls |-> 0]

NextImageType == LoadImageFromFile \/ LoadImageFromUrl \/ SendImageToAi

SpecImageType == InitImageType /\ [][NextImageType]_vars

\* ------------------------------------------------------------------------
\* JSON-RPC edge function: serve and handleToolCall (orbit-mcp-server/index.ts)
\* ------------------------------------------------------------------------
\* JSON-RPC error codes of the responses
METHOD_NOT_FOUND == -32601

RATE_LIMIT_EXCEEDED == -32000

INTERNAL_ERROR == -32603

NoCode == 0

\* HTTP status codes
HTTP_OK == 200

HTTP_INTERNAL_SERVER_ERROR == 500

\* The request body: "unparsable" makes req.json() throw.
Bodies == {"unparsable", "json"}

\* mcpRequest.jsonrpc
JsonRpcVersions == {"absent", "1.0", "2.0"}

\* mcpRequest.id as JSON text: a missing member, null, a number, a string
RequestIds == {"absent", "null", "1", "abc"}

\* mcpRequest.method
Methods == {"tools/list", "tools/call", "resources/list"}

\* mcpRequest.params: missing, or a tool call naming an unknown or a known tool
ParamsValues == {"absent", "unknown_tool", "analyze_image"}

JsonRpcRequests ==
  {[body |-> "unparsable", jsonrpc |-> "absent", id |-> "absent", method |-> "tools/list",
    params |-> "absent"]} \cup
  {[body |-> "json", jsonrpc |-> v, id |-> i, method |-> m, params |-> p] :
     v \in JsonRpcVersions, i \in RequestIds, m \in Methods, p \in ParamsValues}

NoJsonRpcRequest ==
  [body |-> "none", jsonrpc |-> "absent", id |-> "absent", method |-> "none",
   params |-> "absent"]

NoHttpResponse == [status |-> 0, jsonrpc |-> "none", id |-> "none", members |-> {},
                   code |-> NoCode]

\* { jsonrpc: '2.0', id, result } with HTTP 200
JsonRpcResult(id) ==
  [status |-> HTTP_OK, jsonrpc |-> "2.0", id |-> id, members |-> {"result"},
   code |-> NoCode]

\* { jsonrpc: '2.0', id, error: { code, message } } with HTTP 200
JsonRpcError(id, code) ==
  [status |-> HTTP_OK, jsonrpc |-> "2.0", id |-> id, members |-> {"error"}, code |-> code]

\* The catch block of serve: HTTP 500, id 0, code -32603
ServeCatch ==
  [status |-> HTTP_INTERNAL_SERVER_ERROR, jsonrpc |-> "2.0", id |-> "0",
   members |-> {"error"}, code |-> INTERNAL_ERROR]

\* request.id.toString() throws a TypeError for a missing or null id.
IdToStringThrows(id) == id \in {"absent", "null"}

\* toolCall.name / toolCall.arguments throw a TypeError when params is missing.
ToolCallUndefined(params) == params = "absent"

JsonRpcRespond(response) ==
  fnCall' = [fnCall EXCEPT !.step = "responded", !.response = response]

\* serve from the arrival of a POST to its first await on a collaborator or to its
\* response; handleToolCall runs inside it.
JsonRpcServe(request) ==
  /\ fnCall.fn = "serve"
  /\ fnCall.step = "idle"
  /\ LET received == [fnCall EXCEPT !.request = request]
         rateLimitCheck == checkRateLimit(rateLimitStore, "client", now)
         limited == /\ request.body = "json"
                    /\ request.jsonrpc = "2.0"
                    /\ request.method = "tools/call"
                    /\ ~IdToStringThrows(request.id)
     IN /\ IF limited
             THEN /\ rateLimitStore' = rateLimitCheck.store
                  /\ rlLast' = RateLimitRecord(rlStats, rateLimitStore, "client", now)
                  /\ rlStats' = RateLimitStats(rlStats, rateLimitStore, "client", now)
             ELSE UNCHANGED <<rateLimitStore, rlLast, rlStats>>
        /\ fnCall' =
             IF request.body = "unparsable" \/ request.jsonrpc # "2.0"
               THEN [received EXCEPT !.step = "responded", !.response = ServeCatch]
             ELSE IF request.method = "tools/list"
               THEN [received EXCEPT !.step = "responded",
                                     !.response = JsonRpcResult(request.id)]
             ELSE IF request.method # "tools/call"
               THEN [received EXCEPT !.step = "responded",
                                     !.response = JsonRpcError(request.id, METHOD_NOT_FOUND)]
             ELSE IF IdToStringThrows(request.id)
               THEN [received EXCEPT !.step = "responded", !.response = ServeCatch]
             ELSE IF ~rateLimitCheck.allowed
               THEN IF ToolCallUndefined(request.params)
                      THEN [received EXCEPT !.step = "responded", !.response = ServeCatch]
                      ELSE [received EXCEPT
                              !.step = "responded",
                              !.response = JsonRpcError(request.id, RATE_LIMIT_EXCEEDED)]
             ELSE IF ToolCallUndefined(request.params)
               \* toolCall.name throws inside the try, toolCall.arguments in its catch
               THEN [received EXCEPT !.step = "responded", !.response = ServeCatch]
             ELSE IF request.params = "unknown_tool"
               THEN [received EXCEPT !.step = "insert", !.toolFailed = TRUE]
             ELSE [received EXCEPT !.step = "tool"]
  /\ UNCHANGED <<now, auditLog, audited, statusTotal, apiKeySet, req>>

\* await executeAnalyzeImage(...) settles; the row for mcp_requests is sent.
JsonRpcToolDone(outcome) ==
  /\ fnCall.fn = "serve"
  /\ fnCall.step = "tool"
  /\ fnCall' = [fnCall EXCEPT !.step = "insert", !.toolFailed = (outcome = "fail")]
  /\ UNCHANGED <<now, rateLimitStore, rlStats, rlLast, auditLog, audited, statusTotal,
                 apiKeySet, req>>

\* await supabase.from('mcp_requests').insert(...) settles, its failure is logged only;
\* handleToolCall returns and serve answers with HTTP 200.
JsonRpcInsertDone(outcome) ==
  /\ fnCall.fn = "serve"
  /\ fnCall.step = "insert"
  /\ JsonRpcRespond(IF fnCall.toolFailed
                      THEN JsonRpcError(fnCall.request.id, INTERNAL_ERROR)
                      ELSE JsonRpcResult(fnCall.request.id))
  /\ UNCHANGED <<now, rateLimitStore, rlStats, rlLast, auditLog, audited, statusTotal,
                 apiKeySet, req>>

InitJsonRpc ==
  /\ now = 0
  /\ \E used \in {0, MAX_REQUESTS_PER_WINDOW} :
       /\ rateLimitStore =
            [i \in Identifiers |->
               IF used > 0 THEN [count |-> used, resetTime |-> RATE_LIMIT_WINDOW]
                           ELSE NoWindow]
       /\ rlStats = [i \in Identifiers |-> [admitted |-> used, denied |-> 0]]
  /\ rlLast = NoCall
  /\ auditLog = <<>>
  /\ audited = <<>>
  /\ statusTotal = -1
  /\ apiKeySet = TRUE
  /\ req = NoRequest
  /\ fnCall = [fn |-> "serve", step |-> "idle", request |-> NoJsonRpcRequest,
               toolFailed |-> FALSE, response |-> NoHttpResponse]

NextJsonRpc ==
  \/ \E request \in JsonRpcRequests : JsonRpcServe(request)
  \/ \E outcome \in {"fail", "ok"} : JsonRpcToolDone(outcome)
  \/ \E outcome \in {"fail", "ok"} : JsonRpcInsertDone(outcome)

SpecJsonRpc == InitJsonRpc /\ [][NextJsonRpc]_vars

\* ------------------------------------------------------------------------
\* URL retrieval (utils/url-fetcher.ts fetchImageFromUrl; fetchImageFromUrl of the
\* JSON-RPC edge function)
\* ------------------------------------------------------------------------
\* DEFAULT_URL_CONFIG.MAX_REDIRECTS
MAX_REDIRECTS == 3

\* options.maxRedirects: not given, or a number up to MaxRedirectsOption
MaxRedirectsOption == 2

RedirectOptions ==
  {[given |-> FALSE, value |-> 0]} \cup
    {[given |-> TRUE, value |-> v] : v \in 0..MaxRedirectsOption}

\* The URLs a caller names or a Location header points to.
PublicUrl ==
  [wellFormed |-> TRUE, protocol |-> "https:", host |-> DomainName(<<"example", "com">>),
   port |-> NoPort]

OtherPublicUrl == [PublicUrl EXCEPT !.port = 8000]

LoopbackUrl == [PublicUrl EXCEPT !.host = DomainName(<<"localhost">>)]

FetchTargets == {PublicUrl, OtherPublicUrl, LoopbackUrl}

FetchImplementations == {"local", "edge"}

\* options.maxRedirects || DEFAULT_URL_CONFIG.MAX_REDIRECTS: 0 is falsy
EffectiveMaxRedirects(option) ==
  IF option.given /\ option.value # 0 THEN option.value ELSE MAX_REDIRECTS

FetchFailed(error) == [fnCall EXCEPT !.step = "failed", !.error = error, !.timerArmed = FALSE]

\* The head of the while loop: another request with a fresh 10 s timer while
\* redirectCount <= maxRedirects, otherwise 'Too many redirects'.
NextRequest(call) ==
  IF call.redirectCount <= call.maxRedirects
    THEN [call EXCEPT !.step = "headers", !.timerArmed = TRUE,
                      !.requested = Append(@, call.currentUrl)]
    ELSE [call EXCEPT !.step = "failed", !.error = "Too many redirects",
                      !.timerArmed = FALSE]

\* fetchImageFromUrl up to its first await fetch(...): validateUrl, the options, and
\* the first request with its abort timer.
StartFetch ==
  /\ fnCall.fn = "fetchImageFromUrl"
  /\ fnCall.step = "start"
  /\ LET validation == IF fnCall.impl = "local" THEN ValidateUrl(fnCall.currentUrl)
                                                ELSE EdgeValidateUrl(fnCall.currentUrl)
     IN fnCall' =
          IF ~validation.valid
            THEN FetchFailed("URL validation failed")
            ELSE NextRequest([fnCall EXCEPT
                                !.maxRedirects =
                                  IF fnCall.impl = "local"
                                    THEN EffectiveMaxRedirects(fnCall.option)
                                    ELSE 0])
  /\ UNCHANGED <<now, rateLimitStore, rlStats, rlLast, auditLog, audited, statusTotal,
                 apiKeySet, req>>

\* await fetch(...) resolves with the response headers; clearTimeout(timeoutId) cancels
\* the timer. A 3xx status (seen by the local function only, redirect: 'manual') has its
\* Location validated and leads to the next turn of the loop.
HeadersArrive(kind, location) ==
  /\ fnCall.fn = "fetchImageFromUrl"
  /\ fnCall.step = "headers"
  /\ kind = "redirect" => fnCall.impl = "local"
  /\ fnCall' =
       CASE kind = "redirect" ->
              IF ~ValidateUrl(location).valid
                THEN FetchFailed("Redirect URL validation failed")
                ELSE NextRequest([fnCall EXCEPT !.currentUrl = location,
                                                !.redirectCount = @ + 1,
                                                !.timerArmed = FALSE])
         [] kind = "http_error" -> FetchFailed("HTTP error")
         [] kind = "not_image" -> FetchFailed("Content-Type is not an image")
         [] kind = "too_long" -> FetchFailed("Content-Length exceeds maximum file size")
         [] OTHER -> [fnCall EXCEPT !.step = "body", !.timerArmed = FALSE]
  /\ UNCHANGED <<now, rateLimitStore, rlStats, rlLast, auditLog, audited, statusTotal,
                 apiKeySet, req>>

\* The request or the body read is rejected by the network.
FetchRejects ==
  /\ fnCall.fn = "fetchImageFromUrl"
  /\ fnCall.step \in {"headers", "body"}
  /\ fnCall' = FetchFailed("network error")
  /\ UNCHANGED <<now, rateLimitStore, rlStats, rlLast, auditLog, audited, statusTotal,
                 apiKeySet, req>>

\* The 10 s timer fires: controller.abort() rejects the pending fetch with an
\* AbortError, reported as 'Request timeout'.
TimeoutFires ==
  /\ fnCall.fn = "fetchImageFromUrl"
  /\ fnCall.timerArmed
  /\ fnCall' = FetchFailed("Request timeout")
  /\ UNCHANGED <<now, rateLimitStore, rlStats, rlLast, auditLog, audited, statusTotal,
                 apiKeySet, req>>

\* await response.arrayBuffer() resolves: the size is checked and the image returned.
BodyArrives(outcome) ==
  /\ fnCall.fn = "fetchImageFromUrl"
  /\ fnCall.step = "body"
  /\ fnCall' = IF outcome = "too_big"
                 THEN FetchFailed("Downloaded file size exceeds maximum allowed size")
                 ELSE [fnCall EXCEPT !.step = "returned"]
  /\ UNCHANGED <<now, rateLimitStore, rlStats, rlLast, auditLog, audited, statusTotal,
                 apiKeySet, req>>

InitFetch ==
  /\ now = 0
  /\ rateLimitStore = [i \in Identifiers |-> NoWindow]
  /\ rlStats = [i \in Identifiers |-> [admitted |-> 0, denied |-> 0]]
  /\ rlLast = NoCall
  /\ auditLog = <<>>
  /\ audited = <<>>
  /\ statusTotal = -1
  /\ apiKeySet = TRUE
  /\ req = NoRequest
  /\ \E impl \in FetchImplementations, url \in FetchTargets, option \in RedirectOptions :
       /\ impl = "edge" => ~option.given
       /\ fnCall = [fn |-> "fetchImageFromUrl", impl |-> impl, option |-> option,
                    currentUrl |-> url, step |-> "start", maxRedirects |-> 0,
                    redirectCount |-> 0, requested |-> <<>>, timerArmed |-> FALSE,
                    error |-> "none"]

NextFetch ==
  \/ StartFetch
  \/ \E kind \in {"redirect", "http_error", "not_image", "too_long", "ok"} :
       \E location \in FetchTargets : HeadersArrive(kind, location)
  \/ FetchRejects
  \/ TimeoutFires
  \/ \E outcome \in {"too_big", "ok"} : BodyArrives(outcome)

SpecFetch == InitFetch /\ [][NextFetch]_vars

\* The function's own steps are taken and an armed timer fires; the remote server may
\* stay silent for ever.
SpecFetchLive == SpecFetch /\ WF_vars(StartFetch) /\ WF_vars(TimeoutFires)

\* ------------------------------------------------------------------------
\* Concurrent requests of the local dispatcher (tools/call handler, checkRateLimit)
\* ------------------------------------------------------------------------
\* The handler invocations that can be in flight at once.
MaxInFlight == 2

Handlers == 1..MaxInFlight

\* A handler invocation runs from its entry to its first await without interruption:
\* checkRateLimit('global') is a synchronous call in that stretch. Denied, it ends
\* there; allowed, it is suspended at an await on a file, network, AI or storage call.
HandlerStarts(h) ==
  /\ fnCall.fn = "handlers"
  /\ fnCall.pc[h] = "idle"
  /\ \/ WindowExpired(rateLimitStore["global"], now)
     \/ rlStats["global"].denied < MaxDenied
  /\ LET rateLimitCheck == checkRateLimit(rateLimitStore, "global", now) IN
       /\ rateLimitStore' = rateLimitCheck.store
       /\ fnCall' = [fnCall EXCEPT !.pc[h] = IF rateLimitCheck.allowed THEN "awaiting"
                                                                    ELSE "done"]
  /\ rlLast' = RateLimitRecord(rlStats, rateLimitStore, "global", now)
  /\ rlStats' = RateLimitStats(rlStats, rateLimitStore, "global", now)
  /\ UNCHANGED <<now, auditLog, audited, statusTotal, apiKeySet, req>>

\* The awaited call settles and the invocation runs to its end.
HandlerResumes(h) ==
  /\ fnCall.fn = "handlers"
  /\ fnCall.pc[h] = "awaiting"
  /\ fnCall' = [fnCall EXCEPT !.pc[h] = "done"]
  /\ UNCHANGED <<now, rateLimitStore, rlStats, rlLast, auditLog, audited, statusTotal,
                 apiKeySet, req>>

\* The next tools/call request arrives.
RequestArrives(h) ==
  /\ fnCall.fn = "handlers"
  /\ fnCall.pc[h] = "done"
  /\ fnCall' = [fnCall EXCEPT !.pc[h] = "idle"]
  /\ UNCHANGED <<now, rateLimitStore, rlStats, rlLast, auditLog, audited, statusTotal,
                 apiKeySet, req>>

\* The clock moves forward while requests are in flight.
TickInFlight ==
  /\ fnCall.fn = "handlers"
  /\ \E t \in Instants : t > now /\ now' = t
  /\ rlLast' = [rlLast EXCEPT !.op = "tick"]
  /\ UNCHANGED <<rateLimitStore, rlStats, auditLog, audited, statusTotal, apiKeySet, fnCall,
                 req>>

InitConcurrent ==
  /\ now = 0
  /\ rateLimitStore = [i \in Identifiers |-> NoWindow]
  /\ rlStats = [i \in Identifiers |-> [admitted |-> 0, denied |-> 0]]
  /\ rlLast = NoCall
  /\ auditLog = <<>>
  /\ audited = <<>>
  /\ statusTotal = -1
  /\ apiKeySet = TRUE
  /\ req = NoRequest
  /\ fnCall = [fn |-> "handlers", pc |-> [h \in Handlers |-> "idle"]]

NextConcurrent ==
  \/ \E h \in Handlers : HandlerStarts(h)
  \/ \E h \in Handlers : HandlerResumes(h)
  \/ \E h \in Handlers : RequestArrives(h)
  \/ TickInFlight

SpecConcurrent == InitConcurrent /\ [][NextConcurrent]_vars

\* ------------------------------------------------------------------------
\* Clients of the JSON-RPC edge function
\* (src/src/supabase-mcp-client.ts, supabase/functions/orbit-mcp-server/index.ts)
\* ------------------------------------------------------------------------
\* SupabaseMCPClient instances calling one warm instance of the edge function.
Clients == {"clientA", "clientB"}

\* Requests a client sends beyond MAX_REQUESTS_PER_WINDOW.
ClientHeadroom == 1

MaxRequestCounter == MAX_REQUESTS_PER_WINDOW + ClientHeadroom

\* request.id.toString() of the ids the clients produce: the keys of rateLimitStore.
RequestKeys == 1..MaxRequestCounter

\* Date.now() advances by half a window, so every request modelled lies within one
\* window of the first.
MaxClientTicks == 1

HalfWindow == RATE_LIMIT_WINDOW \div 2

\* makeRequest('tools/call', ...) of one client, served by handleToolCall: the id is
\* ++this.requestCounter, the rate limiter is consulted with request.id.toString().
ClientMakeRequest(c) ==
  /\ fnCall.fn = "clients"
  /\ fnCall.requestCounter[c] < MaxRequestCounter
  /\ LET id == fnCall.requestCounter[c] + 1
         clientId == id
         rateLimitCheck == checkRateLimit(rateLimitStore, clientId, now)
     IN /\ rateLimitStore' = rateLimitCheck.store
        /\ fnCall' = [fnCall EXCEPT
                        !.requestCounter[c] = id,
                        !.admitted[c] = IF rateLimitCheck.allowed THEN @ + 1 ELSE @,
                        !.charged[clientId] =
                           IF ~rateLimitCheck.allowed THEN @
                           ELSE IF WindowExpired(rateLimitStore[clientId], now) THEN {c}
                           ELSE @ \cup {c},
                        !.lastClient = c,
                        !.lastCode = IF rateLimitCheck.allowed THEN NoCode
                                     ELSE RATE_LIMIT_EXCEEDED]
  /\ UNCHANGED <<now, rlStats, rlLast, auditLog, audited, statusTotal, apiKeySet, req>>

ClientTick ==
  /\ fnCall.fn = "clients"
  /\ now < MaxClientTicks * HalfWindow
  /\ now' = now + HalfWindow
  /\ UNCHANGED <<rateLimitStore, rlStats, rlLast, auditLog, audited, statusTotal, apiKeySet,
                 req, fnCall>>

\* The store of a cold instance, or of a warm one on which MAX_REQUESTS_PER_WINDOW
\* earlier callers have just sent their first request (id 1).
InitClients ==
  /\ now = 0
  /\ \E used \in {0, MAX_REQUESTS_PER_WINDOW} :
       /\ rateLimitStore =
            [k \in RequestKeys |->
               IF k = 1 /\ used > 0 THEN [count |-> used, resetTime |-> RATE_LIMIT_WINDOW]
                                    ELSE NoWindow]
       /\ fnCall = [fn |-> "clients",
                    requestCounter |-> [c \in Clients |-> 0],
                    admitted |-> [c \in Clients |-> 0],
                    charged |-> [k \in RequestKeys |->
                                   IF k = 1 /\ used > 0 THEN {"earlier"} ELSE {}],
                    lastClient |-> "none",
                    lastCode |-> NoCode]
  /\ rlStats = [i \in Identifiers |-> [admitted |-> 0, denied |-> 0]]
  /\ rlLast = NoCall
  /\ auditLog = <<>>
  /\ audited = <<>>
  /\ statusTotal = -1
  /\ apiKeySet = TRUE
  /\ req = NoRequest

NextClients ==
  \/ \E c \in Clients : ClientMakeRequest(c)
  \/ ClientTick

SpecClients == InitClients /\ [][NextClients]_vars

\* ------------------------------------------------------------------------
\* Upload metadata (modules/supabase-upload.ts uploadToSupabase; executeSupabaseUpload
\* of the REST edge function)
\* ------------------------------------------------------------------------
UploadImplementations == {"local", "edge"}

\* The decoded image: a PNG header, and a RIFF header whose bytes are all below 128.
UploadedBytes == {<<137, 80, 78, 71>>, <<82, 73, 70, 70>>}

UploadPaths == {p \in Paths : p.stem = "photo" /\ p.suffix \in {NoSuffix, "jpg"}}

\* A metadata value: its typeof, its text, and for a hex digest the bytes it digests.
MetaText(text) == [type |-> "string", text |-> text, digest |-> <<>>]

\* SHA-256 as a collision-free digest: the hex string is determined by the bytes digested
\* and differs for different bytes.
Sha256Hex(bytes) == [type |-> "string", text |-> "sha256", digest |-> bytes]

CallerValues ==
  {MetaText("caption"), MetaText("<b>caption</b>"), MetaText("text/html"),
   Sha256Hex(<<0>>),
   [type |-> "number", text |-> "7", digest |-> <<>>],
   [type |-> "object", text |-> "{}", digest |-> <<>>]}

CallerKeys == {"original_checksum", "original_mime_type", "title", "bad key"}

\* The metadata argument: not given, or an object with some of the keys.
CallerMetadata ==
  {[given |-> FALSE, entries |-> <<>>]} \cup
    {[given |-> TRUE, entries |-> e] :
       e \in UNION {[ks -> CallerValues] : ks \in SUBSET CallerKeys}}

\* /^[a-zA-Z0-9_-]+$/.test(key) && key.length < 100
MetadataKeyAccepted(key) == key # "bad key"

\* sanitizeInput on the texts above: tags are removed.
SanitizeMetadataText(text) == IF text = "<b>caption</b>" THEN "caption" ELSE text

\* Array.from(buffer).map(b => String.fromCharCode(b)).join('') encoded by TextEncoder:
\* a byte of 128 or more becomes two bytes of UTF-8.
RECURSIVE Utf8OfLatin1(_)
Utf8OfLatin1(bytes) ==
  IF bytes = <<>> THEN <<>>
  ELSE (IF Head(bytes) < 128 THEN <<Head(bytes)>>
        ELSE <<192 + (Head(bytes) \div 64), 128 + (Head(bytes) % 64)>>)
       \o Utf8OfLatin1(Tail(bytes))

generateImageChecksum(bytes) == Sha256Hex(bytes)

generateImageChecksumEdge(bytes) == Sha256Hex(Utf8OfLatin1(bytes))

IntegrityMetadata(checksum, mimeType) ==
  [k \in {"original_checksum", "original_mime_type", "upload_timestamp"} |->
     CASE k = "original_checksum" -> checksum
       [] k = "original_mime_type" -> MetaText(mimeType)
       [] OTHER -> MetaText("timestamp")]

\* Object assignment key by key: the later value of a key replaces the earlier one.
AssignEntries(target, entries) ==
  [k \in DOMAIN target \cup DOMAIN entries |->
     IF k \in DOMAIN entries THEN entries[k] ELSE target[k]]

\* The loop of uploadToSupabase over Object.entries(metadata).
SanitizedEntries(entries) ==
  LET kept == {k \in DOMAIN entries :
                 /\ MetadataKeyAccepted(k)
                 /\ entries[k].type \in {"string", "number"}}
  IN [k \in kept |->
        IF entries[k].type = "string"
          THEN [entries[k] EXCEPT !.text = SanitizeMetadataText(@)]
          ELSE entries[k]]

\* uploadOptions.metadata of uploadToSupabase
LocalUploadMetadata(bytes, mimeType, metadata) ==
  IF metadata.given
    THEN AssignEntries(IntegrityMetadata(generateImageChecksum(bytes), mimeType),
                       SanitizedEntries(metadata.entries))
    ELSE IntegrityMetadata(generateImageChecksum(bytes), mimeType)

\* uploadMetadata of executeSupabaseUpload: { original_checksum, ..., ...metadata }
EdgeUploadMetadata(bytes, mimeType, metadata) ==
  AssignEntries(IntegrityMetadata(generateImageChecksumEdge(bytes), mimeType),
                metadata.entries)

\* The call up to `await supabase.storage.from(bucket).upload(...)`.
UploadReachesStorage ==
  /\ fnCall.fn = "upload"
  /\ fnCall.step = "idle"
  /\ LET buffer == [given |-> TRUE, bytes |-> fnCall.bytes]
         actualMimeType == IF fnCall.impl = "local"
                             THEN detectMimeType(fnCall.path, buffer)
                             ELSE detectMimeTypeEdge(fnCall.path, buffer)
         originalChecksum == IF fnCall.impl = "local"
                               THEN generateImageChecksum(fnCall.bytes)
                               ELSE generateImageChecksumEdge(fnCall.bytes)
     IN fnCall' = [fnCall EXCEPT
                     !.step = "uploading",
                     !.contentType = actualMimeType,
                     !.checksum = originalChecksum,
                     !.stored = IF fnCall.impl = "local"
                                  THEN LocalUploadMetadata(fnCall.bytes, actualMimeType,
                                                           fnCall.metadata)
                                  ELSE EdgeUploadMetadata(fnCall.bytes, actualMimeType,
                                                          fnCall.metadata)]
  /\ UNCHANGED <<now, rateLimitStore, rlStats, rlLast, auditLog, audited, statusTotal,
                 apiKeySet, req>>

\* The storage API answers: the result is returned, or 'Supabase upload failed: ...'.
UploadSettles(outcome) ==
  /\ fnCall.fn = "upload"
  /\ fnCall.step = "uploading"
  /\ fnCall' = IF outcome = "ok"
                 THEN [fnCall EXCEPT !.step = "returned",
                                     !.result = [mime_type |-> fnCall.contentType,
                                                 integrity_checksum |-> fnCall.checksum]]
                 ELSE [fnCall EXCEPT !.step = "failed"]
  /\ UNCHANGED <<now, rateLimitStore, rlStats, rlLast, auditLog, audited, statusTotal,
                 apiKeySet, req>>

NoUploadResult == [mime_type |-> "none", integrity_checksum |-> MetaText("none")]

InitUpload ==
  /\ now = 0
  /\ rateLimitStore = [i \in Identifiers |-> NoWindow]
  /\ rlStats = [i \in Identifiers |-> [admitted |-> 0, denied |-> 0]]
  /\ rlLast = NoCall
  /\ auditLog = <<>>
  /\ audited = <<>>
  /\ statusTotal = -1
  /\ apiKeySet = TRUE
  /\ req = NoRequest
  /\ \E impl \in UploadImplementations, bytes \in UploadedBytes, uploadPath \in UploadPaths,
        metadata \in CallerMetadata :
       fnCall = [fn |-> "upload", step |-> "idle", impl |-> impl, bytes |-> bytes,
                 path |-> uploadPath, metadata |-> metadata, contentType |-> "none",
                 checksum |-> MetaText("none"), stored |-> <<>>,
                 result |-> NoUploadResult]

NextUpload ==
  \/ UploadReachesStorage
  \/ \E outcome \in {"ok", "error"} : UploadSettles(outcome)

SpecUpload == InitUpload /\ [][NextUpload]_vars

\* ------------------------------------------------------------------------
\* Risk scoring of the REST edge function (supabase/functions/orbit-gemini-analysis:
\* serve, extractSecurityContext, validateRequest)
\* ------------------------------------------------------------------------
RISK_AUTH_FAILED == 20

RISK_NO_AUTH_HEADER == 10

RISK_UNKNOWN_IP == 15

RISK_UNKNOWN_AGENT == 10

MAX_RISK_SCORE == 100

RISK_THRESHOLD == 80

HTTP_TOO_MANY_REQUESTS == 429

\* Request headers; "absent" is a header that is not sent.
AuthorizationValues == {"absent", "Basic dXNlcg==", "Bearer token"}

ForwardedForValues == {"absent", "unknown", "203.0.113.7"}

RealIpValues == {"absent", "198.51.100.2"}

UserAgentValues == {"absent", "Mozilla/5.0", "AI-MCP-Client/1.0", "curl/8.4"}

RestHeaders ==
  [authorization : AuthorizationValues, forwardedFor : ForwardedForValues,
   realIp : RealIpValues, userAgent : UserAgentValues]

\* The body: its tool and what its parameters contain.
RestTools == {"analyze_image", "unknown_tool"}

RestParameters == {"clean", "injection", "traversal"}

\* How supabase.auth.getUser(token) settles; "not called" without a Bearer header.
GetUserOutcomes == {"user", "no user", "throws"}

\* req.headers.get('x-forwarded-for') || req.headers.get('x-real-ip') || 'unknown'
IpAddress(headers) ==
  IF headers.forwardedFor # "absent" THEN headers.forwardedFor
  ELSE IF headers.realIp # "absent" THEN headers.realIp
  ELSE "unknown"

\* userAgent.includes('Mozilla') || userAgent.includes('AI-MCP'), userAgent defaulting
\* to 'unknown'
KnownAgent(headers) == headers.userAgent \in {"Mozilla/5.0", "AI-MCP-Client/1.0"}

StartsWithBearer(headers) == headers.authorization = "Bearer token"

\* riskScore of extractSecurityContext (ENABLE_AUTH_VALIDATION is true)
RiskScore(headers, getUser) ==
  LET riskScore ==
        (IF StartsWithBearer(headers)
           THEN (IF getUser = "throws" THEN RISK_AUTH_FAILED ELSE 0)
           ELSE RISK_NO_AUTH_HEADER)
        + (IF IpAddress(headers) = "unknown" THEN RISK_UNKNOWN_IP ELSE 0)
        + (IF ~KnownAgent(headers) THEN RISK_UNKNOWN_AGENT ELSE 0)
  IN IF riskScore < MAX_RISK_SCORE THEN riskScore ELSE MAX_RISK_SCORE

RestResponse(status, error) == [status |-> status, error |-> error]

\* validateRequest: the error it throws, "none" when it returns.
ValidateRequestError(tool, parameters, riskScore) ==
  IF tool = "unknown_tool" THEN "Tool not allowed"
  ELSE IF riskScore > RISK_THRESHOLD THEN "Request blocked due to high risk score"
  ELSE IF parameters = "injection"
    THEN "Potential security threat detected in parameters"
  ELSE IF parameters = "traversal" THEN "Invalid file path detected"
  ELSE "none"

\* serve after extractSecurityContext has returned: the rate limit, then await req.json()
RestAfterContext(call, getUser) ==
  LET rateLimitCheck == checkRateLimit(rateLimitStore, "client", now)
      scored == [call EXCEPT !.getUser = getUser, !.scored = TRUE,
                             !.riskScore = RiskScore(call.headers, getUser)]
  IN /\ rateLimitStore' = rateLimitCheck.store
     /\ rlLast' = RateLimitRecord(rlStats, rateLimitStore, "client", now)
     /\ rlStats' = RateLimitStats(rlStats, rateLimitStore, "client", now)
     /\ fnCall' = IF rateLimitCheck.allowed
                    THEN [scored EXCEPT !.step = "json"]
                    ELSE [scored EXCEPT
                            !.step = "responded",
                            !.response = RestResponse(HTTP_TOO_MANY_REQUESTS,
                                                      "Rate limit exceeded")]

\* serve from the arrival of a POST to its first await.
RestServe ==
  /\ fnCall.fn = "rest"
  /\ fnCall.step = "idle"
  /\ IF StartsWithBearer(fnCall.headers)
       THEN /\ fnCall' = [fnCall EXCEPT !.step = "getUser"]
            /\ UNCHANGED <<rateLimitStore, rlLast, rlStats>>
       ELSE RestAfterContext(fnCall, "not called")
  /\ UNCHANGED <<now, auditLog, audited, statusTotal, apiKeySet, req>>

\* await supabase.auth.getUser(token) settles.
RestGetUserSettles(getUser) ==
  /\ fnCall.fn = "rest"
  /\ fnCall.step = "getUser"
  /\ RestAfterContext(fnCall, getUser)
  /\ UNCHANGED <<now, auditLog, audited, statusTotal, apiKeySet, req>>

\* await req.json() settles; validateRequest runs, then the tool is started.
RestBodyParsed ==
  /\ fnCall.fn = "rest"
  /\ fnCall.step = "json"
  /\ LET error == ValidateRequestError(fnCall.tool, fnCall.parameters, fnCall.riskScore)
         validated == [fnCall EXCEPT !.validated = TRUE]
     IN fnCall' = IF error # "none"
                    THEN [validated EXCEPT
                            !.step = "responded",
                            !.response = RestResponse(HTTP_INTERNAL_SERVER_ERROR, error)]
                    ELSE [validated EXCEPT !.step = "tool", !.toolRuns = @ + 1]
  /\ UNCHANGED <<now, rateLimitStore, rlStats, rlLast, auditLog, audited, statusTotal,
                 apiKeySet, req>>

\* await executeMCPTool(...) settles.
RestToolSettles(outcome) ==
  /\ fnCall.fn = "rest"
  /\ fnCall.step = "tool"
  /\ fnCall' = IF outcome = "ok"
                 THEN [fnCall EXCEPT !.step = "audit"]
                 ELSE [fnCall EXCEPT
                         !.step = "responded",
                         !.response = RestResponse(HTTP_INTERNAL_SERVER_ERROR, "tool failed")]
  /\ UNCHANGED <<now, rateLimitStore, rlStats, rlLast, auditLog, audited, statusTotal,
                 apiKeySet, req>>

\* await logAuditEntry(...) settles (its failure is logged only).
RestAuditSettles ==
  /\ fnCall.fn = "rest"
  /\ fnCall.step = "audit"
  /\ fnCall' = [fnCall EXCEPT !.step = "responded",
                              !.response = RestResponse(HTTP_OK, "none")]
  /\ UNCHANGED <<now, rateLimitStore, rlStats, rlLast, auditLog, audited, statusTotal,
                 apiKeySet, req>>

InitRisk ==
  /\ now = 0
  /\ \E used \in {0, MAX_REQUESTS_PER_WINDOW} :
       /\ rateLimitStore =
            [i \in Identifiers |->
               IF used > 0 THEN [count |-> used, resetTime |-> RATE_LIMIT_WINDOW]
                           ELSE NoWindow]
       /\ rlStats = [i \in Identifiers |-> [admitted |-> used, denied |-> 0]]
  /\ rlLast = NoCall
  /\ auditLog = <<>>
  /\ audited = <<>>
  /\ statusTotal = -1
  /\ apiKeySet = TRUE
  /\ req = NoRequest
  /\ \E headers \in RestHeaders, tool \in RestTools, parameters \in RestParameters :
       fnCall = [fn |-> "rest", step |-> "idle", headers |-> headers, tool |-> tool,
                 parameters |-> parameters, getUser |-> "not called", scored |-> FALSE,
                 riskScore |-> 0, validated |-> FALSE, toolRuns |-> 0,
                 response |-> RestResponse(0, "none")]

NextRisk ==
  \/ RestServe
  \/ \E getUser \in GetUserOutcomes : RestGetUserSettles(getUser)
  \/ RestBodyParsed
  \/ \E outcome \in {"fail", "ok"} : RestToolSettles(outcome)
  \/ RestAuditSettles

SpecRisk == InitRisk /\ [][NextRisk]_vars

\* ------------------------------------------------------------------------
\* Properties of the rate limiter
\* ------------------------------------------------------------------------
\* Calls made against the identifier's current window, the last one included.
CallsInWindow(identifier) == rlStats[identifier].admitted + rlStats[identifier].denied

\* r is ceil(d / 1000), stated without the division
IsCeilSeconds(r, d) == r * MS_PER_SECOND >= d /\ (r - 1) * MS_PER_SECOND < d

\* C1 (as stated): while one window is current, its first MAX_REQUESTS_PER_WINDOW calls
\* are allowed and the next call is denied with retryAfter > 0,
\* retryAfter = ceil((resetTime - now) / 1000).
C1_FirstMaxAllowedThenDeniedPositiveRetry ==
  rlLast.op = "call" =>
    LET window == rateLimitStore[rlLast.id] IN
    /\ CallsInWindow(rlLast.id) <= MAX_REQUESTS_PER_WINDOW => rlLast.allowed
    /\ CallsInWindow(rlLast.id) > MAX_REQUESTS_PER_WINDOW =>
         /\ ~rlLast.allowed
         /\ rlLast.retryAfter > 0
         /\ IsCeilSeconds(rlLast.retryAfter, window.resetTime - rlLast.at)

\* C1 (amended): the same, but the denied call's retryAfter is only >= 0: it is
\* positive exactly when now < resetTime and 0 when the call is made at now = resetTime,
\* the last instant at which the window is still the current one.
C1_FirstMaxAllowedThenDenied ==
  rlLast.op = "call" =>
    LET window == rateLimitStore[rlLast.id] IN
    /\ CallsInWindow(rlLast.id) <= MAX_REQUESTS_PER_WINDOW => rlLast.allowed
    /\ CallsInWindow(rlLast.id) > MAX_REQUESTS_PER_WINDOW =>
         /\ ~rlLast.allowed
         /\ rlLast.retryAfter >= 0
         /\ (rlLast.retryAfter > 0 <=> rlLast.at < window.resetTime)
         /\ IsCeilSeconds(rlLast.retryAfter, window.resetTime - rlLast.at)

\* The (MAX+1)-th call of a window, made one millisecond before the window ends.
C1_Witness ==
  /\ rlLast.op = "call"
  /\ CallsInWindow(rlLast.id) = MAX_REQUESTS_PER_WINDOW + 1
  /\ ~rlLast.allowed
  /\ rlLast.retryAfter = 1
  /\ rateLimitStore[rlLast.id].resetTime - rlLast.at = 1

\* C2: every stored window has 1 <= count <= MAX_REQUESTS_PER_WINDOW, and no more than
\* MAX_REQUESTS_PER_WINDOW calls are admitted against one window.
C2_CountWithinLimit ==
  \A identifier \in Identifiers :
    rateLimitStore[identifier] # NoWindow =>
      /\ 1 <= rateLimitStore[identifier].count
      /\ rateLimitStore[identifier].count <= MAX_REQUESTS_PER_WINDOW
      /\ rlStats[identifier].admitted <= MAX_REQUESTS_PER_WINDOW

\* A full window that has gone on being called, after the clock has moved.
C2_Witness ==
  \E identifier \in Identifiers :
    /\ rateLimitStore[identifier].count = MAX_REQUESTS_PER_WINDOW
    /\ rlStats[identifier].admitted = MAX_REQUESTS_PER_WINDOW
    /\ rlStats[identifier].denied = MaxDenied
    /\ now > 0

\* C3: the first call after now > resetTime is allowed whatever the old count was, and
\* it replaces the window by {count: 1, resetTime: now + RATE_LIMIT_WINDOW}.
C3_ExpiredWindowReplaced ==
  (rlLast.op = "call" /\ rlLast.before # NoWindow /\ rlLast.at > rlLast.before.resetTime) =>
    /\ rlLast.allowed
    /\ rateLimitStore[rlLast.id] =
         [count |-> 1, resetTime |-> rlLast.at + RATE_LIMIT_WINDOW]

\* A window that was full and had denied calls is replaced after it expired.
C3_Witness ==
  /\ rlLast.op = "call"
  /\ rlLast.before.count = MAX_REQUESTS_PER_WINDOW
  /\ rlLast.deniedBefore > 0
  /\ rlLast.at > rlLast.before.resetTime
  /\ rateLimitStore[rlLast.id].count = 1

\* ------------------------------------------------------------------------
\* Properties of the audit log
\* ------------------------------------------------------------------------
Min(a, b) == IF a < b THEN a ELSE b

\* The last k elements of s
LastK(s, k) == SubSeq(s, Len(s) - k + 1, Len(s))

\* C5: the log holds at most 1000 entries, exactly the most recent min(n, 1000) audited
\* entries in the order they were appended, and a status report never counts more.
C5_BoundedFifo ==
  /\ Len(auditLog) <= AUDIT_LOG_CAPACITY
  /\ auditLog = LastK(audited, Min(Len(audited), AUDIT_LOG_CAPACITY))
  /\ Len(getAuditLog(auditLog)) <= AUDIT_LOG_CAPACITY
  /\ statusTotal <= AUDIT_LOG_CAPACITY

\* More than 1000 entries were audited, the oldest were evicted and a status was reported.
C5_Witness ==
  /\ Len(audited) > AUDIT_LOG_CAPACITY + 1
  /\ Len(auditLog) = AUDIT_LOG_CAPACITY
  /\ auditLog[1].n = Len(audited) - AUDIT_LOG_CAPACITY + 1
  /\ statusTotal = AUDIT_LOG_CAPACITY

\* ------------------------------------------------------------------------
\* Properties of the local dispatcher
\* ------------------------------------------------------------------------
\* The entries of the history that the observed request appended.
OwnEntries == {i \in 1..Len(audited) : \E k \in 1..Len(req.audits) : audited[i].n = req.audits[k]}

Finished == req.pc = "done"

\* C4: every invocation of the tools/call handler, whatever the tool name and the
\* outcome, has appended exactly one audit entry when it ends.
C4_ExactlyOneAuditEntry == Finished => Len(req.audits) = 1

\* The request is one the claim C6 lists as failing validation.
C6_FailsValidation ==
  LET a == req.args IN
  /\ a.defined
  /\ \/ /\ req.name = "analyze_image"
        /\ \/ ~Falsy(a.image_path) /\ ~Falsy(a.image_url)
           \/ Falsy(a.image_path) /\ Falsy(a.image_url)
           \/ a.image_path \in {"nonstring", "traversal", "bad_ext"}
           \/ a.image_url \in {"nonstring", "malformed", "blocked"}
     \/ /\ req.name = "upload_to_supabase"
        /\ \/ \E f \in {"image_data", "bucket", "path", "supabase_url", "supabase_key"} :
                a[f] \in {"absent", "nonstring"}
           \/ a.supabase_url = "malformed"
           \/ a.supabase_key = "short"
           \/ a.path = "traversal"
           \/ a.image_data = "oversized"

\* C6: a request of the local dispatcher that fails validation never reaches the
\* external collaborator: no AI call and no storage upload is made for it (nor is a
\* file opened or a URL fetched), and it ends in an error, returned or thrown.
C6_ValidationFailureNeverReachesCollaborator ==
  (req.binding = "local" /\ C6_FailsValidation) =>
     /\ req.aiCalls = 0
     /\ req.storageCalls = 0
     /\ req.fileOps = 0
     /\ req.urlFetches = 0
     /\ Finished
     /\ req.response.kind \in {"error", "throw"}

\* A traversal path on analyze_image was refused by the module and audited as a failure.
C6_Witness ==
  /\ Finished
  /\ req.name = "analyze_image"
  /\ req.args.image_path = "traversal"
  /\ req.args.image_url = "absent"
  /\ req.response.isError
  /\ req.response.error.stage = "gemini"
  /\ req.aiCalls = 0
  /\ Len(req.audits) = 1

\* C7: when a request ends in an error (returned or thrown), a failure entry with that
\* error, written by this request, is in the audit history.
C7_ErrorsAuditedBeforeReturned ==
  (Finished /\ req.response.kind \in {"error", "throw"}) =>
     \E i \in OwnEntries : ~audited[i].success /\ audited[i].error = req.response.error

\* The fields of the module's result that a success response must carry.
C9_Payload(name) ==
  CASE name = "analyze_image" -> {"analysis_type", "confidence", "metadata"}
    [] name = "upload_to_supabase" -> {"success", "path", "public_url"}
    [] OTHER -> {"security_config", "rate_limit_status", "audit_log", "server_info"}

C9_FailureHasOnlyError ==
  (Finished /\ req.response.kind = "error") =>
     req.response.isError /\ req.response.fields = {} /\ req.response.error.cause # "none"

C10_NoExceptionEscapes ==
  Finished =>
     /\ req.response.kind \in {"result", "error"}
     /\ (req.response.kind = "error") => req.response.isError

\* ------------------------------------------------------------------------
\* Properties of the transport bindings
\* ------------------------------------------------------------------------
\* C8: in each of the four bindings an analyze_image call is accepted only with exactly
\* one of image_path, image_data, image_url; with none or several it is rejected and no
\* image is read, fetched or sent to the AI API.
C8_ExactlyOneSourceAccepted ==
  (req.name = "analyze_image" /\ req.pc # "new" /\ Cardinality(SourceFields(req.args)) # 1) =>
     /\ req.fileOps = 0
     /\ req.urlFetches = 0
     /\ req.aiCalls = 0
     /\ Finished
     /\ req.response.kind # "result"

\* ------------------------------------------------------------------------
\* Properties of the analysis module
\* ------------------------------------------------------------------------
\* C11: when analyze_image is called with analysis_type = t, the returned
\* analysis_type is t whatever the classification says, and no classification
\* request is made: the analysis request is the only AI call.
C11_ForcedAnalysisTypeUsed ==
  (Finished /\ req.binding = "local" /\ req.name = "analyze_image"
     /\ req.response.kind = "result" /\ ~Falsy(req.args.analysis_type)) =>
     /\ req.analysisType = req.args.analysis_type
     /\ req.aiCalls = 1

\* ------------------------------------------------------------------------
\* Properties of URL validation
\* ------------------------------------------------------------------------
\* The host is one of the blocklist's hosts or a subdomain of one.
NamesBlockedHost(host) ==
  \E domain \in BLOCKED_DOMAINS :
    \/ host.kind = domain.kind /\ host.labels = domain.labels /\ host.octets = domain.octets
    \/ EndsWithDomain(host, domain)

UrlValidated == fnCall.fn = "validateUrl" /\ fnCall.step # "start" /\ fnCall.input.wellFormed

\* C13: a URL whose scheme is not http or https, whose host is a blocklist entry
\* (localhost, 127.0.0.1, 0.0.0.0, ::1, metadata.google.internal, 169.254.169.254) or a
\* subdomain of one, or whose host is a dotted quad in 10/8, 172.16/12, 192.168/16 or
\* 127/8, is found invalid by validateUrl, and fetchImageFromUrl sends it no request.
C13_DangerousUrlRejected ==
  (UrlValidated
     /\ \/ fnCall.input.protocol \notin {"http:", "https:"}
        \/ NamesBlockedHost(fnCall.input.host)
        \/ IsPrivateIp(fnCall.input.host)) =>
     /\ ~fnCall.output.valid
     /\ ~fnCall.edgeOutput.valid
     /\ ~fnCall.requested
     /\ ~fnCall.edgeRequested

\* C14: an http or https URL with a public host and no explicit port is valid, and a
\* URL is refused for its port only when it names a blocked port that is not its
\* scheme's default.
C14_BothSchemesAccepted ==
  UrlValidated =>
     /\ (/\ fnCall.input.protocol \in {"http:", "https:"}
         /\ ~NamesBlockedHost(fnCall.input.host)
         /\ ~IsPrivateIp(fnCall.input.host)
         /\ fnCall.input.port = NoPort) => fnCall.output.valid
     /\ (fnCall.output.error = "Port is blocked") =>
           /\ fnCall.input.port # NoPort
           /\ fnCall.input.port # DefaultPort(fnCall.input.protocol)
           /\ fnCall.input.port \in BLOCKED_PORTS

\* ------------------------------------------------------------------------
\* Properties of MIME detection
\* ------------------------------------------------------------------------
\* The type the claim C15 prescribes: the table entry of the lower-cased extension
\* (the text after the last dot of a name that does not begin with it), else the
\* signature of a buffer of at least four bytes, else image/jpeg.
PrescribedMimeType(uploadPath, buffer) ==
  LET ext == IF uploadPath.suffix = NoSuffix \/ uploadPath.stem = ""
               THEN NoSuffix ELSE ToLowerCase(uploadPath.suffix)
      bytes == buffer.bytes
  IN IF ext \in {"jpg", "jpeg"} THEN "image/jpeg"
     ELSE IF ext = "png" THEN "image/png"
     ELSE IF ext = "webp" THEN "image/webp"
     ELSE IF buffer.given /\ Len(bytes) >= 4 /\ SubSeq(bytes, 1, 4) = <<137, 80, 78, 71>>
       THEN "image/png"
     ELSE IF buffer.given /\ Len(bytes) >= 4 /\ SubSeq(bytes, 1, 3) = <<255, 216, 255>>
       THEN "image/jpeg"
     ELSE IF buffer.given /\ Len(bytes) >= 4 /\ SubSeq(bytes, 1, 4) = <<82, 73, 70, 70>>
       THEN "image/webp"
     ELSE "image/jpeg"

MimeDetected == fnCall.fn = "detectMimeType" /\ fnCall.done

\* detectMimeType of utils/mime-detection.ts returns the prescribed type.
LocalMimeTypeAsPrescribed ==
  MimeDetected => fnCall.output = PrescribedMimeType(fnCall.path, fnCall.buffer)

\* C15: MIME detection always returns one of image/jpeg, image/png, image/webp: the
\* table entry of the path's lower-cased extension whatever the buffer holds, else the
\* type of the signature in a buffer of at least four bytes, else image/jpeg; this holds
\* of detectMimeType and of detectMimeTypeEdge.
C15_MimeTypeAsPrescribed ==
  MimeDetected =>
     /\ fnCall.output = PrescribedMimeType(fnCall.path, fnCall.buffer)
     /\ fnCall.edgeOutput = PrescribedMimeType(fnCall.path, fnCall.buffer)
     /\ fnCall.edgeOutput \in {"image/jpeg", "image/png", "image/webp"}

\* The bytes begin with the PNG, JPEG or WebP signature.
HasImageSignature(buffer) ==
  /\ Len(buffer.bytes) >= 4
  /\ \/ SubSeq(buffer.bytes, 1, 4) = <<137, 80, 78, 71>>
     \/ SubSeq(buffer.bytes, 1, 3) = <<255, 216, 255>>
     \/ SubSeq(buffer.bytes, 1, 4) = <<82, 73, 70, 70>>

\* C16: an image that is not of an allowed MIME type is rejected and never sent to the
\* AI: content from a URL, or from a path without an allowed extension, whose leading
\* bytes are not a PNG, JPEG or WebP signature is never forwarded.
C16_UnrecognisedContentNeverSent ==
  (/\ fnCall.fn = "loadImage"
   /\ fnCall.source = "url" \/ ~PathHasImageExtension(fnCall.path)
   /\ ~HasImageSignature(fnCall.buffer))
    => fnCall.step \notin {"typed", "sent"} /\ fnCall.aiCalls = 0

\* C17: in the components that read a caller-named local file (the analysis module of
\* the local dispatcher and the stdio-to-HTTP proxy) a path containing '..' or '~' is
\* rejected before any file-system read.
C17_TraversalPathNeverRead ==
  (/\ req.binding \in {"local", "proxy"}
   /\ req.name = "analyze_image"
   /\ ContainsTraversal(req.args.image_path))
    => req.fileOps = 0

\* C18: in the REST edge function every inbound POST, whatever its outcome (success,
\* rate-limit refusal, validation rejection, tool failure), has exactly one row written
\* to mcp_audit_log before the HTTP response is returned.
C18_EveryRestRequestAudited ==
  (req.binding = "rest" /\ Finished) => req.dbRows = 1

\* ------------------------------------------------------------------------
\* Properties of the JSON-RPC edge function
\* ------------------------------------------------------------------------
JsonRpcResponded == fnCall.fn = "serve" /\ fnCall.step = "responded"

\* C19: every request whose body parses and has jsonrpc = '2.0' is answered with HTTP
\* 200 by a JSON-RPC 2.0 object whose id is the request's and which has exactly one of
\* result and error (-32601 for an unknown method, -32000 for a rate-limit refusal,
\* -32603 for a failing tool call); only a request that is not JSON-RPC 2.0 is answered
\* with HTTP 500 and id 0.
C19_JsonRpcRequestAnsweredInBand ==
  JsonRpcResponded =>
    LET request == fnCall.request
        response == fnCall.response
    IN IF request.body = "json" /\ request.jsonrpc = "2.0"
         THEN /\ response.status = HTTP_OK
              /\ response.jsonrpc = "2.0"
              /\ response.id = request.id
              /\ Cardinality(response.members) = 1
              /\ (request.method \notin {"tools/list", "tools/call"}
                    => response.code = METHOD_NOT_FOUND)
              /\ response.code \in {NoCode, METHOD_NOT_FOUND, RATE_LIMIT_EXCEEDED,
                                    INTERNAL_ERROR}
         ELSE response.status = HTTP_INTERNAL_SERVER_ERROR /\ response.id = "0"

\* ------------------------------------------------------------------------
\* Properties of the request pipeline
\* ------------------------------------------------------------------------
PipelineStages ==
  <<"RECEIVED", "RATE_CHECKED", "VALIDATED", "SCANNED", "DELEGATED", "AUDITED", "RESPONDED">>

StageRank(stage) == CHOOSE i \in 1..Len(PipelineStages) : PipelineStages[i] = stage

\* C20: every request to the local dispatcher passes the stages RECEIVED, RATE_CHECKED,
\* VALIDATED, SCANNED, DELEGATED, AUDITED, RESPONDED in this order: the rate limit comes
\* before all argument validation, every injection and PII scan completes before the
\* first call to the AI or to storage, and the audit entry is written after the last
\* external call and before the response.
C20_StagesInOrder ==
  req.binding = "local" =>
    \A i, j \in 1..Len(req.stages) :
      i < j => StageRank(req.stages[i]) <= StageRank(req.stages[j])

\* ------------------------------------------------------------------------
\* Properties of the prompt-injection scan
\* ------------------------------------------------------------------------
InjectionScanned == fnCall.fn = "detectPromptInjection" /\ fnCall.done

\* C21: detectPromptInjection decodes nested base64 at most one level deep: it calls
\* itself on the first decoded payload only and never on a payload of a payload.
C21_RecursionDepthAtMostOne == InjectionScanned => fnCall.depth <= 1

\* The decoded payload of the scanned text is reported detected.
PayloadDetected(input) ==
  input.encoded # <<>> /\ detectPromptInjection(input.encoded[1]).detected

\* The patterns of the list that match, in list order
MatchingInListOrder(input) ==
  LET Matches(pattern) == pattern \in input.matches
  IN SelectSeq(InjectionPatterns, Matches)

\* C22: for every input, score = (number of the N patterns that match) + 2 if the
\* decoded payload is reported detected, confidence = min(score / N, 1) lies in [0, 1],
\* detected holds exactly when confidence > 0.3, and the matching patterns are listed in
\* list order, followed by 'base64_encoded_injection' when the payload was detected.
C22_ScoreConfidenceAndPatterns ==
  InjectionScanned =>
    LET input == fnCall.input
        N == Len(InjectionPatterns)
        score == Cardinality(input.matches) + (IF PayloadDetected(input) THEN 2 ELSE 0)
    IN /\ fnCall.output.confidenceNum = Min(score, N)
       /\ fnCall.output.confidenceNum \in 0..N
       /\ fnCall.output.detected <=> (fnCall.output.confidenceNum * 10 > 3 * N)
       /\ fnCall.output.patterns =
            MatchingInListOrder(input) \o
              (IF PayloadDetected(input) THEN <<"base64_encoded_injection">> ELSE <<>>)

\* A text matching every pattern whose payload is detected has been scanned: its score
\* exceeds N and the confidence is capped at 1.
C22_Witness ==
  /\ InjectionScanned
  /\ PayloadDetected(fnCall.input)
  /\ Cardinality(fnCall.input.matches) = Len(InjectionPatterns)
  /\ fnCall.output.confidenceNum = Len(InjectionPatterns)

\* ------------------------------------------------------------------------
\* Properties of URL retrieval
\* ------------------------------------------------------------------------
LocalFetch == fnCall.fn = "fetchImageFromUrl" /\ fnCall.impl = "local"

\* The limit the caller asked for: options.maxRedirects when given, else MAX_REDIRECTS
RequestedMaxRedirects(option) == IF option.given THEN option.value ELSE MAX_REDIRECTS

\* C23: every URL that fetchImageFromUrl requests has passed validateUrl; it follows at
\* most MAX_REDIRECTS (3, or the caller's options.maxRedirects) redirects, so it issues
\* at most that many requests plus one, and a longer chain ends in 'Too many redirects'.
C23_RedirectsValidatedAndBounded ==
  LocalFetch =>
    /\ \A i \in 1..Len(fnCall.requested) : ValidateUrl(fnCall.requested[i]).valid
    /\ fnCall.redirectCount <= RequestedMaxRedirects(fnCall.option) + 1
    /\ Len(fnCall.requested) <= RequestedMaxRedirects(fnCall.option) + 1
    /\ (fnCall.redirectCount > RequestedMaxRedirects(fnCall.option)
          => fnCall.step = "failed" /\ fnCall.error = "Too many redirects")

FetchEnded == fnCall.fn = "fetchImageFromUrl" /\ fnCall.step \in {"returned", "failed"}

\* C24: URL retrieval never hangs: every call of fetchImageFromUrl, local or in the edge
\* function, eventually returns the image or fails, even when the remote server stalls
\* before the response headers or while the body is read (the 10-second timer then ends
\* the call with the timeout error).
C24_FetchEventuallyEnds == <>FetchEnded

\* ------------------------------------------------------------------------
\* Properties of concurrent requests
\* ------------------------------------------------------------------------
\* C25: under any interleaving of requests in flight, suspended only at their awaits,
\* the rate limiter loses no update: the requests admitted against one window never
\* exceed MAX_REQUESTS_PER_WINDOW and the window's count equals their number.
C25_NoLostUpdate ==
  (fnCall.fn = "handlers" /\ rateLimitStore["global"] # NoWindow) =>
    /\ rlStats["global"].admitted <= MAX_REQUESTS_PER_WINDOW
    /\ rateLimitStore["global"].count = rlStats["global"].admitted

\* A full window with a denied request while another admitted request is still
\* suspended at its await.
C25_Witness ==
  /\ fnCall.fn = "handlers"
  /\ rateLimitStore["global"].count = MAX_REQUESTS_PER_WINDOW
  /\ rlStats["global"].denied >= 1
  /\ \E h \in Handlers : fnCall.pc[h] = "awaiting"
  /\ \E h \in Handlers : fnCall.pc[h] = "done"

\* ------------------------------------------------------------------------
\* Properties of external calls
\* ------------------------------------------------------------------------
\* C26: no external call is retried: within one request the URL fetch, the AI
\* classification call, the AI analysis call and the storage upload are each made at
\* most once; once one of them has failed no further external call is made for the
\* request, and the failure is reported with the prefix of the failing stage ('Gemini
\* analysis failed: ' or 'Supabase upload failed: ').
C26_NoRetryAndFailureWrapped ==
  req.binding = "local" =>
    LET error == req.response.error IN
    /\ req.urlFetches <= 1
    /\ req.aiCalls <= 2
    /\ req.storageCalls <= 1
    /\ (Finished /\ error.cause = "fetch failed") =>
         error.stage = "gemini" /\ req.urlFetches = 1 /\ req.aiCalls = 0
    /\ (Finished /\ error.cause = "classification failed") =>
         error.stage = "gemini" /\ req.aiCalls = 1
    /\ (Finished /\ error.cause = "analysis failed") =>
         error.stage = "gemini" /\ req.aiCalls = 2
    /\ (Finished /\ error.cause = "upload error") =>
         error.stage = "supabase" /\ req.storageCalls = 1 /\ req.aiCalls = 0

\* A request whose image was fetched and classified and whose analysis call failed.
C26_Witness ==
  /\ req.binding = "local"
  /\ Finished
  /\ req.response.kind = "error"
  /\ req.response.error.cause = "analysis failed"
  /\ req.urlFetches = 1
  /\ req.aiCalls = 2

\* C27: on the JSON-RPC endpoint rate limiting is keyed by client: a client that sends
\* more than MAX_REQUESTS_PER_WINDOW tools/call requests within one window has every
\* request after the MAX-th rejected with the rate-limit error, and the requests of one
\* client never consume the quota of a different client.
C27_RateLimitKeyedByClient ==
  fnCall.fn = "clients" =>
    /\ \A c \in Clients :
         /\ fnCall.admitted[c] <= MAX_REQUESTS_PER_WINDOW
         /\ (fnCall.lastClient = c /\ fnCall.requestCounter[c] > MAX_REQUESTS_PER_WINDOW)
              => fnCall.lastCode = RATE_LIMIT_EXCEEDED
    /\ \A k \in RequestKeys : Cardinality(fnCall.charged[k] \cap Clients) <= 1

\* The identifiers that have a key in the store.
StoredIdentifiers(store) == {i \in DOMAIN store : store[i] # NoWindow}

\* C28: a denied checkRateLimit call leaves the whole store unchanged; a call for one
\* identifier, allowed or denied, leaves the window of every other identifier unchanged;
\* no step removes a key from the store, so the number of stored identifiers never
\* decreases.
C28_DeniedCallAndOtherWindowsUntouched ==
  [][/\ (rlLast'.op = "call" /\ ~rlLast'.allowed) => rateLimitStore' = rateLimitStore
     /\ rlLast'.op = "call" =>
          \A b \in Identifiers \ {rlLast'.id} : rateLimitStore'[b] = rateLimitStore[b]
     /\ StoredIdentifiers(rateLimitStore) \subseteq StoredIdentifiers(rateLimitStore')
     /\ Cardinality(StoredIdentifiers(rateLimitStore))
          <= Cardinality(StoredIdentifiers(rateLimitStore'))]_vars

\* A call was just denied while another identifier has a window in the store.
C28_Witness ==
  /\ fnCall.fn = "none"
  /\ rlLast.op = "call"
  /\ ~rlLast.allowed
  /\ rlLast.before = rateLimitStore[rlLast.id]
  /\ \E b \in Identifiers \ {rlLast.id} : rateLimitStore[b] # NoWindow

\* ------------------------------------------------------------------------
\* Properties of uploads
\* ------------------------------------------------------------------------
\* C29: for every upload that reaches the storage API, with any caller-supplied
\* metadata, the metadata stored with the file has original_checksum equal to the
\* SHA-256 of the uploaded bytes and original_mime_type equal to the detected content
\* type, both equal to the integrity_checksum and mime_type returned to the caller.
C29_IntegrityMetadataKept ==
  (fnCall.fn = "upload" /\ fnCall.step # "idle") =>
    /\ fnCall.stored["original_checksum"] = Sha256Hex(fnCall.bytes)
    /\ fnCall.stored["original_mime_type"] = MetaText(fnCall.contentType)
    /\ fnCall.step = "returned" =>
         /\ fnCall.result.integrity_checksum = fnCall.stored["original_checksum"]
         /\ fnCall.result.mime_type = fnCall.stored["original_mime_type"].text

\* ------------------------------------------------------------------------
\* Properties of risk scoring
\* ------------------------------------------------------------------------
\* The request of the example: not authenticated, IP address unknown, user agent
\* neither a browser nor the MCP client.
MostSuspicious ==
  /\ fnCall.getUser \in {"not called", "throws"}
  /\ IpAddress(fnCall.headers) = "unknown"
  /\ ~KnownAgent(fnCall.headers)

\* C30: the risk score computed by extractSecurityContext is an integer in 0..100 for
\* every combination of headers and authentication outcome, and the high-risk rule of
\* validateRequest is effective: the unauthenticated request with unknown IP address and
\* a non-browser user agent scores more than 80 and is blocked with 'Request blocked due
\* to high risk score' before any tool executes.
C30_RiskScoreBoundedAndRuleEffective ==
  (fnCall.fn = "rest" /\ fnCall.scored) =>
    /\ fnCall.riskScore \in 0..MAX_RISK_SCORE
    /\ (MostSuspicious /\ fnCall.validated /\ fnCall.tool # "unknown_tool") =>
         /\ fnCall.riskScore > RISK_THRESHOLD
         /\ fnCall.response.error = "Request blocked due to high risk score"
         /\ fnCall.toolRuns = 0

====
